---- MODULE Spec2Model ----
(***************************************************************************)
(* Titanic passenger API: the listing endpoint GET /api/v1/passengers      *)
(* (api/routers/passengers.py), its two query builders, the row store it   *)
(* calls (api/database/connection.py) and the request validation that      *)
(* guards it (FastAPI Query constraints, api/models/passenger.py).         *)
(*                                                                         *)
(* An Optional[T] value is a sequence: <<>> is None, <<v>> is the value v. *)
(* A query text is the sequence of the string pieces the builder           *)
(* concatenates; a piece that ends in %s carries one placeholder.          *)
(***************************************************************************)
EXTENDS Integers, Sequences, FiniteSets, TLC

VARIABLES
    dataset,        \* the Observation table: a sequence of indexes into Pool
    max_page_size,  \* settings.max_page_size
    pc,             \* where the server is: idle, handler, counted, done
    request,        \* the query parameters of the request being served
    filters,        \* the PassengerFilter object (Optional)
    window,         \* <<limit, offset>> given to build_passenger_query
    count_query,    \* text of the count query
    count_params,   \* its arguments
    total_count,
    offset,
    total_pages,
    query,          \* text of the list query
    params,         \* its arguments
    store_log,      \* the store calls issued for the request, in order
    response,       \* the response of the request
    session,        \* earlier responses of the same filter and page_size
    stats_response, \* the response of a statistics or grouped-aggregate request
    seen,           \* per aggregate endpoint, the body it last answered
    active_sessions, \* routes/auth.py: the sessions, as (session_id, username) entries
    http,           \* the request in the middleware: path, cookie, outcome
    auth_log,       \* history: the login and logout requests, in order
    call,           \* the running call of execute_query / execute_count_query
    connections     \* the database connections that are open

vars == <<dataset, max_page_size, pc, request, filters, window, count_query,
          count_params, total_count, offset, total_pages, query, params,
          store_log, response, session, stats_response, seen,
          active_sessions, http, auth_log, call, connections>>

-----------------------------------------------------------------------------
(* Bounds of the model *)

MaxRows == 3
MaxPage == 3
MaxSmallPageSize == 2
MaxPresent == 2
MaxAuthEvents == 3
MaxSessions == 2
MaxCalls == 3

-----------------------------------------------------------------------------
(* Optional values *)

None == <<>>
Some(v) == <<v>>
IsNone(x) == Len(x) = 0
Val(x) == x[1]

Min(a, b) == IF a <= b THEN a ELSE b
Max(a, b) == IF a >= b THEN a ELSE b

RECURSIVE SumSeq(_)
SumSeq(s) == IF s = <<>> THEN 0 ELSE Head(s) + SumSeq(Tail(s))

RECURSIVE Join(_, _)
\* sep.join(parts), as the sequence of pieces
Join(parts, sep) ==
    IF Len(parts) <= 1 THEN parts
    ELSE <<Head(parts), sep>> \o Join(Tail(parts), sep)

-----------------------------------------------------------------------------
(* The passenger table *)

\* Candidate rows of Observation joined with Sex and Embarked. survived,
\* pclass, adult_male and alone are NOT NULL columns; age is nullable; sex and
\* embarked come from LEFT JOINs and are NULL when the foreign key is NULL.
\* Rows 2 and 4 tie on (pclass, sex, age); row 3 has neither age nor sex.
\* fare is nullable; class comes from a LEFT JOIN on a nullable foreign key.
Pool == <<
    [survived |-> 1, pclass |-> 1, sex |-> Some("female"), age |-> Some(29),
     embarked |-> Some("S"), adult_male |-> FALSE, alone |-> TRUE,
     fare |-> Some(71), class |-> Some("First")],
    [survived |-> 0, pclass |-> 3, sex |-> Some("male"), age |-> Some(17),
     embarked |-> Some("S"), adult_male |-> FALSE, alone |-> FALSE,
     fare |-> Some(7), class |-> Some("Third")],
    [survived |-> 1, pclass |-> 3, sex |-> None, age |-> None,
     embarked |-> Some("Q"), adult_male |-> TRUE, alone |-> TRUE,
     fare |-> None, class |-> Some("Third")],
    [survived |-> 1, pclass |-> 3, sex |-> Some("male"), age |-> Some(17),
     embarked |-> None, adult_male |-> FALSE, alone |-> TRUE,
     fare |-> Some(8), class |-> None] >>

\* Further rows for the aggregate endpoints: ages on the bucket boundaries
\* 18, 30, 50 and 65, an age of 0 and a fare of 0. The class label is the
\* one paired with pclass, or NULL (class_id is a nullable foreign key).
MoreRows == <<
    [survived |-> 0, pclass |-> 2, sex |-> Some("female"), age |-> Some(18),
     embarked |-> Some("C"), adult_male |-> FALSE, alone |-> FALSE,
     fare |-> Some(0), class |-> Some("Second")],
    [survived |-> 1, pclass |-> 1, sex |-> Some("male"), age |-> Some(30),
     embarked |-> Some("S"), adult_male |-> TRUE, alone |-> TRUE,
     fare |-> Some(26), class |-> Some("First")],
    [survived |-> 0, pclass |-> 2, sex |-> Some("male"), age |-> Some(50),
     embarked |-> Some("S"), adult_male |-> TRUE, alone |-> FALSE,
     fare |-> Some(0), class |-> Some("Second")],
    [survived |-> 1, pclass |-> 1, sex |-> Some("female"), age |-> Some(65),
     embarked |-> Some("C"), adult_male |-> FALSE, alone |-> TRUE,
     fare |-> Some(30), class |-> Some("First")],
    [survived |-> 0, pclass |-> 3, sex |-> None, age |-> Some(0),
     embarked |-> Some("Q"), adult_male |-> FALSE, alone |-> FALSE,
     fare |-> None, class |-> Some("Third")] >>

Rows == Pool \o MoreRows

\* Tables of up to MaxRows rows (as a multiset: the indexes ascend).
Datasets ==
    UNION { { d \in [1..n -> 1..Len(Pool)] :
                \A i \in 1..n : \A j \in 1..n : i < j => d[i] <= d[j] } :
            n \in 0..MaxRows }

RowIds == 1..Len(dataset)
Row(id) == Rows[dataset[id]]

-----------------------------------------------------------------------------
(* Query builder: api/routers/passengers.py *)

ListBase == "SELECT ... FROM Observation o LEFT JOIN ..."
CountBase == "SELECT COUNT(*) as total FROM Observation o LEFT JOIN ..."
OrderBy == " ORDER BY o.pclass, s.sex, o.age"
LimitClause == " LIMIT %s"
OffsetClause == " OFFSET %s"
Where == " WHERE "
And == " AND "

\* The predicate pieces, in the order the builders test the fields.
PredSurvived == "o.survived = %s"
PredPclass == "o.pclass = %s"
PredSex == "s.sex = %s"
PredMinAge == "o.age >= %s"
PredMaxAge == "o.age <= %s"
PredEmbarked == "e.embarked = %s"
PredAdultMale == "o.adult_male = %s"
PredAlone == "o.alone = %s"

FieldOrder == <<"survived", "pclass", "sex", "min_age", "max_age",
                "embarked", "adult_male", "alone">>

PredOf(field) ==
    CASE field = "survived" -> PredSurvived
      [] field = "pclass" -> PredPclass
      [] field = "sex" -> PredSex
      [] field = "min_age" -> PredMinAge
      [] field = "max_age" -> PredMaxAge
      [] field = "embarked" -> PredEmbarked
      [] field = "adult_male" -> PredAdultMale
      [] field = "alone" -> PredAlone

\* One "if filters.x is not None: append" step of a builder.
AppendIf(cond, acc, piece, value) ==
    IF cond THEN [conds |-> Append(acc.conds, piece),
                  params |-> Append(acc.params, value)]
    ELSE acc

Empty == [conds |-> <<>>, params |-> <<>>]

\* A variant that writes the min_age predicate with the max_age operator.
PassengerConditionsMinAsMax(fopt) ==
    IF IsNone(fopt) THEN Empty
    ELSE LET f == Val(fopt)
             a1 == AppendIf(~IsNone(f.survived), Empty, PredSurvived, Val(f.survived))
             a2 == AppendIf(~IsNone(f.pclass), a1, PredPclass, Val(f.pclass))
             a3 == AppendIf(~IsNone(f.sex), a2, PredSex, Val(f.sex))
             a4 == AppendIf(~IsNone(f.min_age), a3, PredMaxAge, Val(f.min_age))
             a5 == AppendIf(~IsNone(f.max_age), a4, PredMaxAge, Val(f.max_age))
             a6 == AppendIf(~IsNone(f.embarked), a5, PredEmbarked, Val(f.embarked))
             a7 == AppendIf(~IsNone(f.adult_male), a6, PredAdultMale, Val(f.adult_male))
             a8 == AppendIf(~IsNone(f.alone), a7, PredAlone, Val(f.alone))
         IN  a8

\* A variant that tests "if filters.survived:" (truthiness) in place of
\* "is not None": survived = 0 adds no predicate.
PassengerConditionsTruthy(fopt) ==
    IF IsNone(fopt) THEN Empty
    ELSE LET f == Val(fopt)
             a1 == AppendIf(~IsNone(f.survived) /\ Val(f.survived) # 0, Empty,
                            PredSurvived, Val(f.survived))
             a2 == AppendIf(~IsNone(f.pclass), a1, PredPclass, Val(f.pclass))
             a3 == AppendIf(~IsNone(f.sex), a2, PredSex, Val(f.sex))
             a4 == AppendIf(~IsNone(f.min_age), a3, PredMinAge, Val(f.min_age))
             a5 == AppendIf(~IsNone(f.max_age), a4, PredMaxAge, Val(f.max_age))
             a6 == AppendIf(~IsNone(f.embarked), a5, PredEmbarked, Val(f.embarked))
             a7 == AppendIf(~IsNone(f.adult_male), a6, PredAdultMale, Val(f.adult_male))
             a8 == AppendIf(~IsNone(f.alone), a7, PredAlone, Val(f.alone))
         IN  a8

\* build_passenger_query, lines 66-101: where_conditions and params.
PassengerConditions(fopt) ==
    IF IsNone(fopt) THEN Empty
    ELSE LET f == Val(fopt)
             a1 == AppendIf(~IsNone(f.survived), Empty, PredSurvived, Val(f.survived))
             a2 == AppendIf(~IsNone(f.pclass), a1, PredPclass, Val(f.pclass))
             a3 == AppendIf(~IsNone(f.sex), a2, PredSex, Val(f.sex))
             a4 == AppendIf(~IsNone(f.min_age), a3, PredMinAge, Val(f.min_age))
             a5 == AppendIf(~IsNone(f.max_age), a4, PredMaxAge, Val(f.max_age))
             a6 == AppendIf(~IsNone(f.embarked), a5, PredEmbarked, Val(f.embarked))
             a7 == AppendIf(~IsNone(f.adult_male), a6, PredAdultMale, Val(f.adult_male))
             a8 == AppendIf(~IsNone(f.alone), a7, PredAlone, Val(f.alone))
         IN  a8

\* A variant that appends OFFSET whenever an offset is given, with or
\* without a limit.
BuildPassengerQueryOffsetAlone(fopt, limit, off) ==
    LET w == PassengerConditions(fopt)
        q1 == <<ListBase>>
              \o (IF w.conds # <<>> THEN <<Where>> \o Join(w.conds, And) ELSE <<>>)
              \o <<OrderBy>>
        withLimit == ~IsNone(limit)
        withOffset == ~IsNone(off)
    IN  [text |-> q1 \o (IF withLimit THEN <<LimitClause>> ELSE <<>>)
                     \o (IF withOffset THEN <<OffsetClause>> ELSE <<>>),
         params |-> w.params \o (IF withLimit THEN <<Val(limit)>> ELSE <<>>)
                             \o (IF withOffset THEN <<Val(off)>> ELSE <<>>)]

\* A variant that builds the list query without the filter.
BuildPassengerQueryUnfiltered(fopt, limit, off) ==
    [text |-> <<ListBase, OrderBy>>
                  \o (IF ~IsNone(limit) THEN <<LimitClause>> ELSE <<>>)
                  \o (IF ~IsNone(limit) /\ ~IsNone(off) THEN <<OffsetClause>> ELSE <<>>),
     params |-> (IF ~IsNone(limit) THEN <<Val(limit)>> ELSE <<>>)
                    \o (IF ~IsNone(limit) /\ ~IsNone(off) THEN <<Val(off)>> ELSE <<>>)]

\* build_passenger_query: the text and the tuple of arguments it returns.
BuildPassengerQuery(fopt, limit, off) ==
    LET w == PassengerConditions(fopt)
        q1 == <<ListBase>>
              \o (IF w.conds # <<>> THEN <<Where>> \o Join(w.conds, And) ELSE <<>>)
              \o <<OrderBy>>
        withLimit == ~IsNone(limit)
        withOffset == withLimit /\ ~IsNone(off)
    IN  [text |-> q1 \o (IF withLimit THEN <<LimitClause>> ELSE <<>>)
                     \o (IF withOffset THEN <<OffsetClause>> ELSE <<>>),
         params |-> w.params \o (IF withLimit THEN <<Val(limit)>> ELSE <<>>)
                             \o (IF withOffset THEN <<Val(off)>> ELSE <<>>)]

\* A variant of the second copy that tests max_age before min_age.
CountConditionsAgeSwapped(fopt) ==
    IF IsNone(fopt) THEN Empty
    ELSE LET f == Val(fopt)
             a1 == AppendIf(~IsNone(f.survived), Empty, PredSurvived, Val(f.survived))
             a2 == AppendIf(~IsNone(f.pclass), a1, PredPclass, Val(f.pclass))
             a3 == AppendIf(~IsNone(f.sex), a2, PredSex, Val(f.sex))
             a4 == AppendIf(~IsNone(f.max_age), a3, PredMaxAge, Val(f.max_age))
             a5 == AppendIf(~IsNone(f.min_age), a4, PredMinAge, Val(f.min_age))
             a6 == AppendIf(~IsNone(f.embarked), a5, PredEmbarked, Val(f.embarked))
             a7 == AppendIf(~IsNone(f.adult_male), a6, PredAdultMale, Val(f.adult_male))
             a8 == AppendIf(~IsNone(f.alone), a7, PredAlone, Val(f.alone))
         IN  a8

\* build_count_query, lines 138-172: the same block, written a second time.
CountConditions(fopt) ==
    IF IsNone(fopt) THEN Empty
    ELSE LET f == Val(fopt)
             a1 == AppendIf(~IsNone(f.survived), Empty, PredSurvived, Val(f.survived))
             a2 == AppendIf(~IsNone(f.pclass), a1, PredPclass, Val(f.pclass))
             a3 == AppendIf(~IsNone(f.sex), a2, PredSex, Val(f.sex))
             a4 == AppendIf(~IsNone(f.min_age), a3, PredMinAge, Val(f.min_age))
             a5 == AppendIf(~IsNone(f.max_age), a4, PredMaxAge, Val(f.max_age))
             a6 == AppendIf(~IsNone(f.embarked), a5, PredEmbarked, Val(f.embarked))
             a7 == AppendIf(~IsNone(f.adult_male), a6, PredAdultMale, Val(f.adult_male))
             a8 == AppendIf(~IsNone(f.alone), a7, PredAlone, Val(f.alone))
         IN  a8

\* A variant that opens a WHERE clause whenever a filter object is given.
BuildCountQueryFilterGiven(fopt) ==
    LET w == CountConditions(fopt)
    IN  [text |-> <<CountBase>>
                  \o (IF ~IsNone(fopt) THEN <<Where>> \o Join(w.conds, And) ELSE <<>>),
         params |-> w.params]

\* build_count_query: the text and the tuple of arguments it returns.
BuildCountQuery(fopt) ==
    LET w == CountConditions(fopt)
    IN  [text |-> <<CountBase>>
                  \o (IF w.conds # <<>> THEN <<Where>> \o Join(w.conds, And) ELSE <<>>),
         params |-> w.params]

-----------------------------------------------------------------------------
(* Row store: api/database/connection.py runs the text it is given *)

PredPieces == {PredSurvived, PredPclass, PredSex, PredMinAge, PredMaxAge,
               PredEmbarked, PredAdultMale, PredAlone}
PlaceholderPieces == PredPieces \cup {LimitClause, OffsetClause}

IsPlaceholder(piece) == piece \in PlaceholderPieces
IsWherePiece(piece) == piece \in PredPieces \cup {Where, And}

\* The pieces of a text that carry a %s, in text order: cursor.execute binds
\* the i-th of them to the i-th argument.
Placeholders(text) == SelectSeq(text, IsPlaceholder)

\* The WHERE clause of a text: from the WHERE keyword to the last piece
\* before the next clause (none: the empty sequence).
WhereClause(text) ==
    IF \A i \in 1..Len(text) : text[i] # Where THEN <<>>
    ELSE LET start == CHOOSE i \in 1..Len(text) :
                          text[i] = Where /\ \A j \in 1..(i - 1) : text[j] # Where
             stop == CHOOSE k \in start..Len(text) :
                         /\ \A j \in start..k : IsWherePiece(text[j])
                         /\ k = Len(text) \/ ~IsWherePiece(text[k + 1])
         IN  SubSeq(text, start, stop)

HasPiece(text, piece) == \E i \in 1..Len(text) : text[i] = piece

\* A variant of the comparison in which a NULL age passes an age bound.
EvalPredNullAgePasses(piece, row, arg) ==
    CASE piece = PredSurvived -> row.survived = arg
      [] piece = PredPclass -> row.pclass = arg
      [] piece = PredSex -> ~IsNone(row.sex) /\ Val(row.sex) = arg
      [] piece = PredMinAge -> IsNone(row.age) \/ Val(row.age) >= arg
      [] piece = PredMaxAge -> IsNone(row.age) \/ Val(row.age) <= arg
      [] piece = PredEmbarked -> ~IsNone(row.embarked) /\ Val(row.embarked) = arg
      [] piece = PredAdultMale -> row.adult_male = arg
      [] piece = PredAlone -> row.alone = arg

\* SQL comparison of a column with a bound argument: a NULL column makes
\* the predicate not true.
EvalPred(piece, row, arg) ==
    CASE piece = PredSurvived -> row.survived = arg
      [] piece = PredPclass -> row.pclass = arg
      [] piece = PredSex -> ~IsNone(row.sex) /\ Val(row.sex) = arg
      [] piece = PredMinAge -> ~IsNone(row.age) /\ Val(row.age) >= arg
      [] piece = PredMaxAge -> ~IsNone(row.age) /\ Val(row.age) <= arg
      [] piece = PredEmbarked -> ~IsNone(row.embarked) /\ Val(row.embarked) = arg
      [] piece = PredAdultMale -> row.adult_male = arg
      [] piece = PredAlone -> row.alone = arg

RowMatches(text, args, row) ==
    LET ph == Placeholders(text)
    IN  \A k \in 1..Len(ph) :
            ph[k] \in PredPieces => EvalPred(ph[k], row, args[k])

\* The argument bound to a LIMIT or OFFSET placeholder, when the text has it.
BoundArg(text, args, piece) ==
    LET ph == Placeholders(text)
    IN  IF \E k \in 1..Len(ph) : ph[k] = piece
        THEN Some(args[CHOOSE k \in 1..Len(ph) : ph[k] = piece])
        ELSE None

\* cursor.execute raises when the arguments do not fit the placeholders.
StoreAccepts(text, args) == Len(Placeholders(text)) = Len(args)

MatchingIds(text, args) == {id \in RowIds : RowMatches(text, args, Row(id))}

\* ORDER BY o.pclass, s.sex, o.age: ascending, NULLs last.
SexRank(sex) ==
    IF IsNone(sex) THEN 3 ELSE IF Val(sex) = "female" THEN 1 ELSE 2

SortKey(row) ==
    <<row.pclass, SexRank(row.sex),
      IF IsNone(row.age) THEN 1 ELSE 0,
      IF IsNone(row.age) THEN 0 ELSE Val(row.age)>>

KeyLeq(a, b) ==
    \/ a[1] < b[1]
    \/ a[1] = b[1] /\ a[2] < b[2]
    \/ a[1] = b[1] /\ a[2] = b[2] /\ a[3] < b[3]
    \/ a[1] = b[1] /\ a[2] = b[2] /\ a[3] = b[3] /\ a[4] <= b[4]

Orderings(ids) ==
    LET n == Cardinality(ids)
    IN  {s \in [1..n -> ids] : \A i \in 1..n : \A j \in 1..n : i # j => s[i] # s[j]}

\* The row orders the store may produce for a text: the ORDER BY keys are
\* respected, rows that tie on them come in any order.
StoreOrderings(text, args) ==
    LET all == Orderings(MatchingIds(text, args))
    IN  IF HasPiece(text, OrderBy)
        THEN {s \in all : \A i \in 1..(Len(s) - 1) :
                            KeyLeq(SortKey(Row(s[i])), SortKey(Row(s[i + 1])))}
        ELSE all

\* OFFSET then LIMIT applied to an ordered result.
ApplyWindow(rows, text, args) ==
    LET lim == BoundArg(text, args, LimitClause)
        off == BoundArg(text, args, OffsetClause)
        skip == IF IsNone(off) THEN 0 ELSE Val(off)
        rest == SubSeq(rows, skip + 1, Len(rows))
    IN  IF IsNone(lim) THEN rest ELSE SubSeq(rest, 1, Min(Val(lim), Len(rest)))

\* execute_query: the row sequences a call may return.
ExecuteQuery(text, args) ==
    {ApplyWindow(s, text, args) : s \in StoreOrderings(text, args)}

\* execute_count_query: SELECT COUNT(*) of the matching rows.
ExecuteCountQuery(text, args) == Cardinality(MatchingIds(text, args))

-----------------------------------------------------------------------------
(* Requests and their validation *)

\* Raw query parameters a client may send. Each filter parameter may be
\* absent; values outside the declared ranges and enums are included.
FirstPages == {0, 1}
PageSizes == (0..MaxSmallPageSize) \cup {500, 501}

ValuesOf(field) ==
    CASE field = "survived" -> <<0, 2>>
      [] field = "pclass" -> <<3, 4>>
      [] field = "sex" -> <<"male", " female ", "other">>
      [] field = "min_age" -> <<0, 18, -1>>
      [] field = "max_age" -> <<17, 120, 121>>
      [] field = "embarked" -> <<"S", "X">>
      [] field = "adult_male" -> <<FALSE>>
      [] field = "alone" -> <<TRUE>>

FilterFields == {FieldOrder[i] : i \in 1..Len(FieldOrder)}

Present(f) == {x \in FilterFields : ~IsNone(f[x])}

\* The filters with exactly the fields of S present.
FiltersOn(S) ==
    {[x \in FilterFields |-> IF x \in S THEN Some(ValuesOf(x)[g[x]]) ELSE None] :
        g \in {h \in [S -> 1..3] : \A x \in S : h[x] <= Len(ValuesOf(x))}}

\* At most MaxPresent filter parameters are sent.
FilterParams ==
    UNION {FiltersOn(S) : S \in {T \in SUBSET FilterFields : Cardinality(T) <= MaxPresent}}

\* A request with more than one filter parameter asks for one full page.
Requests ==
    {[page |-> p, page_size |-> ps, f |-> f] :
        p \in FirstPages, ps \in PageSizes,
        f \in FilterParams} \ 
    {r \in [page : FirstPages, page_size : PageSizes \ {500}, f : FilterParams] :
        Cardinality(Present(r.f)) > 1}

NoFilterParams == [x \in FilterFields |-> None]

NoRequest == [page |-> 0, page_size |-> 0, f |-> NoFilterParams]

\* Settings.__init__: MAX_PAGE_SIZE from the environment, 500 when unset.
DefaultMaxPageSize == 500
MaxPageSizeSettings == {DefaultMaxPageSize, 100}

\* The ceiling written in the route's Query(50, ge=1, le=500).
RoutePageSizeCeiling == 500

\* The ge/le constraints shared by the route's Query declarations
\* (routers/passengers.py 187-191) and PassengerFilter's fields.
FieldErrors(f) ==
    {x \in Present(f) :
        \/ x = "survived" /\ (Val(f.survived) < 0 \/ Val(f.survived) > 1)
        \/ x = "pclass" /\ (Val(f.pclass) < 1 \/ Val(f.pclass) > 3)
        \/ x = "min_age" /\ Val(f.min_age) < 0
        \/ x = "max_age" /\ Val(f.max_age) > 120}

ParamError(name, value) == [loc |-> name, input |-> value]

\* A variant of the validation with a cross-field rule: min_age above
\* max_age is refused.
QueryErrorsCrossField(req) ==
    (IF req.page < 1 THEN <<ParamError("page", req.page)>> ELSE <<>>)
    \o (IF req.page_size < 1 \/ req.page_size > RoutePageSizeCeiling
        THEN <<ParamError("page_size", req.page_size)>> ELSE <<>>)
    \o [i \in 1..Len(SelectSeq(FieldOrder, LAMBDA x : x \in FieldErrors(req.f))) |->
           LET x == SelectSeq(FieldOrder, LAMBDA y : y \in FieldErrors(req.f))[i]
           IN  ParamError(x, Val(req.f[x]))]
    \o (IF /\ ~IsNone(req.f.min_age)
           /\ ~IsNone(req.f.max_age)
           /\ Val(req.f.min_age) > Val(req.f.max_age)
        THEN <<ParamError("min_age", Val(req.f.min_age))>> ELSE <<>>)

\* FastAPI's validation of the query parameters of get_passengers: one
\* error per parameter it refuses, in declaration order (none: the handler
\* is called).
QueryErrors(req) ==
    (IF req.page < 1 THEN <<ParamError("page", req.page)>> ELSE <<>>)
    \o (IF req.page_size < 1 \/ req.page_size > RoutePageSizeCeiling
        THEN <<ParamError("page_size", req.page_size)>> ELSE <<>>)
    \o [i \in 1..Len(SelectSeq(FieldOrder, LAMBDA x : x \in FieldErrors(req.f))) |->
           LET x == SelectSeq(FieldOrder, LAMBDA y : y \in FieldErrors(req.f))[i]
           IN  ParamError(x, Val(req.f[x]))]

\* str_strip_whitespace=True of PassengerFilter's model_config.
Strip(s) == IF s = " female " THEN "female" ELSE s
StripOpt(x) == IF IsNone(x) THEN None ELSE Some(Strip(Val(x)))

\* PassengerFilter(...): the object built from the handler's parameters.
PassengerFilter(f) ==
    [f EXCEPT !.sex = StripOpt(@), !.embarked = StripOpt(@)]

-----------------------------------------------------------------------------
(* The listing endpoint: get_passengers, routers/passengers.py 184-246 *)

\* A variant that takes page as zero-based.
OffsetZeroBased(page, page_size) == page * page_size

\* offset = (page - 1) * page_size
OffsetOf(page, page_size) == (page - 1) * page_size

\* Variants: floor division, and one page too many on exact multiples.
TotalPagesFloor(count, page_size) == count \div page_size
TotalPagesPlusOne(count, page_size) == (count + page_size) \div page_size

\* total_pages = (total_count + page_size - 1) // page_size
TotalPages(count, page_size) == (count + page_size - 1) \div page_size

NoResponse ==
    [status |-> 0, passengers |-> <<>>, total_count |-> 0, page |-> 0,
     page_size |-> 0, total_pages |-> 0, detail |-> <<>>]

\* FastAPI's answer to parameters that fail validation.
Unprocessable(errs) ==
    [NoResponse EXCEPT !.status = 422,
                       !.detail = errs]

\* raise HTTPException(status_code=500, detail=f"Interner Serverfehler: {e}")
ServerError(e) ==
    [NoResponse EXCEPT !.status = 500, !.detail = <<"Interner Serverfehler: ", e>>]

\* A variant that clamps the echoed page to the last page.
ListResponseClamped(rows, count, page, page_size, pages) ==
    [NoResponse EXCEPT !.status = 200, !.passengers = rows, !.total_count = count,
                       !.page = Min(page, pages), !.page_size = page_size,
                       !.total_pages = pages]

\* PassengerListResponse(...): passengers are the rows, named by their ids.
ListResponse(rows, count, page, page_size, pages) ==
    [NoResponse EXCEPT !.status = 200, !.passengers = rows, !.total_count = count,
                       !.page = page, !.page_size = page_size, !.total_pages = pages]

\* The aggregate endpoints of the router, by the last segment of their path.
Endpoints == {"statistics", "survival-by-class", "survival-by-gender", "age-groups"}

NoStatsResponse ==
    [endpoint |-> "", query_params |-> NoFilterParams, status |-> 0, body |-> <<>>]

NothingSeen == [e \in Endpoints |-> None]

StoreCall(kind, text, args, ok) ==
    [kind |-> kind, text |-> text, params |-> args, ok |-> ok]

ConnectionError == "connection to server failed"

\* The texts of the six queries of get_passenger_statistics.
TotalQuery == "SELECT COUNT(*) as total FROM Observation"
SurvivalQuery == "SELECT COUNT(*) as total, SUM(survived) as survivors FROM Observation"
AgeQuery == "SELECT AVG(age) as avg_age FROM Observation WHERE age IS NOT NULL"
FareQuery == "SELECT AVG(fare) as avg_fare FROM Observation WHERE fare IS NOT NULL"
ClassQuery == "SELECT c.class, COUNT(*) as count FROM Observation o LEFT JOIN Class c ... WHERE c.class IS NOT NULL GROUP BY c.class, c.class_id ORDER BY c.class_id"
GenderQuery == "SELECT s.sex, COUNT(*) as count FROM Observation o LEFT JOIN Sex s ... GROUP BY s.sex"

\* The texts of the grouped aggregates.
SurvivalByClassQuery == "SELECT c.class, o.pclass, COUNT(*), SUM(o.survived), ROUND(...) FROM Observation o LEFT JOIN Class c ... WHERE c.class IS NOT NULL GROUP BY c.class, o.pclass ORDER BY o.pclass"
SurvivalByGenderQuery == "SELECT s.sex, COUNT(*), SUM(o.survived), ROUND(...) FROM Observation o LEFT JOIN Sex s ... GROUP BY s.sex"
AgeGroupsQuery == "SELECT CASE WHEN age < 18 ... END as age_group, COUNT(*), SUM(survived), ROUND(...), ROUND(AVG(age), 1) FROM Observation WHERE age IS NOT NULL GROUP BY CASE ... END ORDER BY MIN(age)"

\* The texts handed to cursor.execute begin with one of these; each is a
\* SELECT statement, and the arguments bound to %s cannot make it another.
SelectStatements ==
    {ListBase, CountBase, TotalQuery, SurvivalQuery, AgeQuery, FareQuery,
     ClassQuery, GenderQuery, SurvivalByClassQuery, SurvivalByGenderQuery,
     AgeGroupsQuery}

\* A variant in which the count statements take the first row out of the
\* table.
ExecutedCountDeletes(text, table) ==
    IF text[1] \in {CountBase, TotalQuery} /\ table # <<>> THEN Tail(table) ELSE table

\* cursor.execute(query, params): a SELECT leaves the table as it is; nothing
\* else is executed, and the connection is closed without a commit.
Executed(text, table) ==
    IF text[1] \in SelectStatements THEN table ELSE <<>>

\* The table after a store call: a call that raised has executed nothing.
EffectOf(c, table) ==
    IF c.ok THEN Executed(c.text, table) ELSE table

RECURSIVE TableAfter(_, _)
\* The table after a sequence of store calls.
TableAfter(calls, table) ==
    IF calls = <<>> THEN table
    ELSE TableAfter(Tail(calls), EffectOf(Head(calls), table))

\* No request is in the middleware.
NoHttp ==
    [path |-> <<>>, cookie |-> None, accept |-> <<>>, stage |-> "none",
     status |-> 0, body |-> ""]

\* active_sessions = {} at import; nobody has logged in or out.
AuthIdle ==
    /\ active_sessions = {}
    /\ http = NoHttp
    /\ auth_log = <<>>

\* No store call is running.
NoCall ==
    [fn |-> "", text |-> "", at |-> "idle", conn |-> None, opened |-> 0,
     outcome |-> "", calls |-> 0]

\* No store call is running and no connection is open.
StoreIdle ==
    /\ call = NoCall
    /\ connections = {}

HandlerIdle ==
    /\ request = NoRequest
    /\ filters = None
    /\ window = <<None, None>>
    /\ count_query = <<>>
    /\ count_params = <<>>
    /\ total_count = 0
    /\ offset = 0
    /\ total_pages = 0
    /\ query = <<>>
    /\ params = <<>>
    /\ store_log = <<>>
    /\ response = NoResponse

Init ==
    /\ dataset \in Datasets
    /\ max_page_size \in MaxPageSizeSettings
    /\ pc = "idle"
    /\ session = <<>>
    /\ HandlerIdle
    /\ stats_response = NoStatsResponse
    /\ seen = NothingSeen
    /\ AuthIdle
    /\ StoreIdle

\* A request arrives; FastAPI validates the query parameters and either
\* answers 422 itself or calls the handler.
Accept(req) ==
    /\ filters' = None
    /\ window' = <<None, None>>
    /\ count_query' = <<>>
    /\ count_params' = <<>>
    /\ total_count' = 0
    /\ offset' = 0
    /\ total_pages' = 0
    /\ query' = <<>>
    /\ params' = <<>>
    /\ store_log' = <<>>
    /\ IF QueryErrors(req) # <<>>
       THEN /\ pc' = "done"
            /\ request' = NoRequest
            /\ response' = Unprocessable(QueryErrors(req))
       ELSE /\ pc' = "handler"
            /\ request' = req
            /\ response' = NoResponse
    /\ UNCHANGED <<active_sessions, http, auth_log, call, connections,
                   stats_response, seen, dataset, max_page_size>>

Receive ==
    /\ pc = "idle"
    /\ \E req \in Requests : Accept(req)
    /\ session' = <<>>

\* Lines 202-215: the filter object, the count query and its store call.
CountStep ==
    /\ pc = "handler"
    /\ LET fobj == PassengerFilter(request.f)
           cq == BuildCountQuery(Some(fobj))
       IN  /\ FieldErrors(fobj) = {}
           /\ StoreAccepts(cq.text, cq.params)
           /\ filters' = Some(fobj)
           /\ count_query' = cq.text
           /\ count_params' = cq.params
           /\ total_count' = ExecuteCountQuery(cq.text, cq.params)
           /\ store_log' = Append(store_log, StoreCall("count", cq.text, cq.params, TRUE))
    /\ pc' = "counted"
    /\ dataset' = EffectOf(store_log'[Len(store_log')], dataset)
    /\ UNCHANGED <<active_sessions, http, auth_log, call, connections,
                   stats_response, seen, max_page_size, request, window, offset, total_pages,
                   query, params, response, session>>

\* The count call raises (lines 130-132 of connection.py); the handler's
\* except clause answers 500.
CountFails ==
    /\ pc = "handler"
    /\ LET fobj == PassengerFilter(request.f)
           cq == BuildCountQuery(Some(fobj))
       IN  /\ FieldErrors(fobj) = {}
           /\ filters' = Some(fobj)
           /\ count_query' = cq.text
           /\ count_params' = cq.params
           /\ store_log' = Append(store_log, StoreCall("count", cq.text, cq.params, FALSE))
    /\ response' = ServerError(ConnectionError)
    /\ pc' = "done"
    /\ dataset' = EffectOf(store_log'[Len(store_log')], dataset)
    /\ UNCHANGED <<active_sessions, http, auth_log, call, connections,
                   stats_response, seen, max_page_size, request, window, total_count, offset,
                   total_pages, query, params, session>>

\* Lines 217-242: pagination, the list query, its store call, the response.
DataStep ==
    /\ pc = "counted"
    /\ LET off == OffsetOf(request.page, request.page_size)
           pages == TotalPages(total_count, request.page_size)
           q == BuildPassengerQuery(filters, Some(request.page_size), Some(off))
       IN  /\ StoreAccepts(q.text, q.params)
           /\ offset' = off
           /\ total_pages' = pages
           /\ window' = <<Some(request.page_size), Some(off)>>
           /\ query' = q.text
           /\ params' = q.params
           /\ store_log' = Append(store_log, StoreCall("query", q.text, q.params, TRUE))
           /\ \E rows \in ExecuteQuery(q.text, q.params) :
                  response' = ListResponse(rows, total_count, request.page,
                                           request.page_size, pages)
    /\ pc' = "done"
    /\ dataset' = EffectOf(store_log'[Len(store_log')], dataset)
    /\ UNCHANGED <<active_sessions, http, auth_log, call, connections,
                   stats_response, seen, max_page_size, request, filters, count_query,
                   count_params, total_count, session>>

DataFails ==
    /\ pc = "counted"
    /\ LET off == OffsetOf(request.page, request.page_size)
           pages == TotalPages(total_count, request.page_size)
           q == BuildPassengerQuery(filters, Some(request.page_size), Some(off))
       IN  /\ offset' = off
           /\ total_pages' = pages
           /\ window' = <<Some(request.page_size), Some(off)>>
           /\ query' = q.text
           /\ params' = q.params
           /\ store_log' = Append(store_log, StoreCall("query", q.text, q.params, FALSE))
    /\ response' = ServerError(ConnectionError)
    /\ pc' = "done"
    /\ dataset' = EffectOf(store_log'[Len(store_log')], dataset)
    /\ UNCHANGED <<active_sessions, http, auth_log, call, connections,
                   stats_response, seen, max_page_size, request, filters, count_query,
                   count_params, total_count, session>>

\* A client that walks the pages from the first one asks for the next page
\* of the same filter and page size, up to one page past the last.
NextPage ==
    /\ pc = "done"
    /\ response.status = 200
    /\ request.page < MaxPage
    /\ request.page <= response.total_pages
    /\ Len(session) = request.page - 1
    /\ Accept([request EXCEPT !.page = @ + 1])
    /\ session' = Append(session, response)

\* The request is over; the server waits for the next one.
Finish ==
    /\ pc \in {"done", "stats_done"}
    /\ pc' = "idle"
    /\ session' = <<>>
    /\ request' = NoRequest
    /\ filters' = None
    /\ window' = <<None, None>>
    /\ count_query' = <<>>
    /\ count_params' = <<>>
    /\ total_count' = 0
    /\ offset' = 0
    /\ total_pages' = 0
    /\ query' = <<>>
    /\ params' = <<>>
    /\ store_log' = <<>>
    /\ response' = NoResponse
    /\ stats_response' = NoStatsResponse
    /\ http' = NoHttp
    /\ UNCHANGED <<active_sessions, auth_log, call, connections, seen, dataset,
                   max_page_size>>

Next ==
    \/ Receive
    \/ CountStep
    \/ CountFails
    \/ DataStep
    \/ DataFails
    \/ NextPage
    \/ Finish

Spec == Init /\ [][Next]_vars

-----------------------------------------------------------------------------
(* Aggregates of the row store: what the statistics queries compute *)

RECURSIVE SumOver(_, _)
\* The sum of f over the ids of S.
SumOver(S, f) ==
    IF S = {} THEN 0
    ELSE LET x == CHOOSE y \in S : TRUE
         IN  f[x] + SumOver(S \ {x}, f)

SurvivedOf == [id \in RowIds |-> Row(id).survived]

WithAge == {id \in RowIds : ~IsNone(Row(id).age)}
WithFare == {id \in RowIds : ~IsNone(Row(id).fare)}
AgeOf == [id \in WithAge |-> Val(Row(id).age)]
FareOf == [id \in WithFare |-> Val(Row(id).fare)]

\* SUM over no rows is NULL.
SqlSum(ids, f) == IF ids = {} THEN None ELSE Some(SumOver(ids, f))

\* AVG over no rows is NULL; otherwise the quotient sum / count, kept exact.
SqlAvg(ids, f) ==
    IF ids = {} THEN None
    ELSE Some([num |-> SumOver(ids, f), den |-> Cardinality(ids)])

\* Python's truth value of a fetched column: None and 0 are false.
TruthyInt(x) == ~IsNone(x) /\ Val(x) # 0
TruthyAvg(x) == ~IsNone(x) /\ Val(x).num # 0
TruthyStr(x) == ~IsNone(x) /\ Val(x) # ""

\* num / den rounded to the nearest integer, ties to the even one
\* (num >= 0, den > 0).
RoundHalfEven(num, den) ==
    LET q == num \div den
        r == num % den
    IN  IF 2 * r < den THEN q
        ELSE IF 2 * r > den THEN q + 1
        ELSE IF q % 2 = 0 THEN q ELSE q + 1

\* PostgreSQL's ROUND of a numeric: ties away from zero.
RoundHalfUp(num, den) == (2 * num + den) \div (2 * den)

\* round(x, 2) of x = num / den, in hundredths.
Round2(num, den) == RoundHalfEven(100 * num, den)


\* The row of SurvivalQuery.
SurvivalResult ==
    [total |-> Cardinality(RowIds), survivors |-> SqlSum(RowIds, SurvivedOf)]

\* The groups of ClassQuery and GenderQuery: the label of each group (NULL
\* for the rows without one, which ClassQuery leaves out) and its row count.
ClassLabels == {Row(id).class : id \in RowIds} \ {None}
SexLabels == {Row(id).sex : id \in RowIds}

ClassResults ==
    {[class |-> c, count |-> Cardinality({id \in RowIds : Row(id).class = c})] :
        c \in ClassLabels}
GenderResults ==
    {[sex |-> x, count |-> Cardinality({id \in RowIds : Row(id).sex = x})] :
        x \in SexLabels}

-----------------------------------------------------------------------------
(* GET /passengers/statistics: get_passenger_statistics, lines 251-319 *)

\* A variant that takes the number of rows of the survival query for the
\* number of survivors.
SurvivorsAsTotal(result) ==
    IF TruthyInt(result.survivors) THEN result.total ELSE 0

\* survivors = int(result['survivors']) if result['survivors'] else 0
Survivors(result) ==
    IF TruthyInt(result.survivors) THEN Val(result.survivors) ELSE 0

\* A variant without the "if total_count > 0" guard: the division raises
\* on an empty table.
SurvivalRateUnguarded(survivors, total) ==
    IF total = 0 THEN None ELSE Some(Round2(100 * survivors, total))

\* round((survivors / total_count * 100) if total_count > 0 else 0, 2), in
\* hundredths of a percent; None stands for a ZeroDivisionError.
SurvivalRate(survivors, total) ==
    IF total > 0 THEN Some(Round2(100 * survivors, total)) ELSE Some(0)

\* float(avg) if avg else None, then round(average, 2) if average else None:
\* in hundredths.
Average(avg) ==
    IF TruthyAvg(avg) THEN Some(Round2(Val(avg).num, Val(avg).den)) ELSE None

\* {row['class']: int(row['count']) for row in class_results if row['class']}
ClassDistribution ==
    LET kept == {r \in ClassResults : TruthyStr(r.class)}
    IN  [c \in {Val(r.class) : r \in kept} |->
            (CHOOSE r \in kept : r.class = Some(c)).count]

\* {row['sex']: int(row['count']) for row in gender_results if row['sex']}
GenderDistribution ==
    LET kept == {r \in GenderResults : TruthyStr(r.sex)}
    IN  [x \in {Val(r.sex) : r \in kept} |->
            (CHOOSE r \in kept : r.sex = Some(x)).count]

\* StatisticsResponse(...)
StatisticsResponse(total, rate, survivors, casualties, age, fare, classes, genders) ==
    [total_passengers |-> total, survival_rate |-> rate, survivors |-> survivors,
     casualties |-> casualties, average_age |-> age, average_fare |-> fare,
     class_distribution |-> classes, gender_distribution |-> genders]

\* Query parameters a client may add to a request for an aggregate: the
\* handlers declare none.
StatsParams == {NoFilterParams} \cup FiltersOn({"survived"})

\* What an aggregate handler leaves alone, and what its store calls leave
\* of the table.
StatsUnchanged ==
    /\ dataset' = TableAfter(store_log', dataset)
    /\ UNCHANGED <<max_page_size, request, filters, window, count_query,
                   count_params, total_count, offset, total_pages, query, params,
                   response, session, active_sessions, http, auth_log, call, connections>>

\* The answer of an aggregate handler: its body, or the 500 of its except
\* clause when the computation raised.
Answer(endpoint, qp, body) ==
    IF IsNone(body)
    THEN [endpoint |-> endpoint, query_params |-> qp, status |-> 500,
          body |-> <<"Interner Serverfehler: ", "division by zero">>]
    ELSE [endpoint |-> endpoint, query_params |-> qp, status |-> 200,
          body |-> Val(body)]

Remember(endpoint, body) ==
    IF IsNone(body) THEN seen ELSE [seen EXCEPT ![endpoint] = body]

\* A variant that scopes the count to the filter parameters of the request.
StatisticsTotalFiltered(qp) ==
    LET cq == BuildCountQuery(Some(PassengerFilter(qp)))
    IN  ExecuteCountQuery(cq.text, cq.params)

\* total_count = execute_count_query(total_query): the handler declares no
\* parameter and the text has no WHERE clause, whatever the request carries.
StatisticsTotal(qp) == ExecuteCountQuery(<<TotalQuery>>, <<>>)

\* The store calls of get_passenger_statistics, in the order of the code.
StatisticsCalls ==
    <<StoreCall("count", <<TotalQuery>>, <<>>, TRUE),
      StoreCall("query", <<SurvivalQuery>>, <<>>, TRUE),
      StoreCall("query", <<AgeQuery>>, <<>>, TRUE),
      StoreCall("query", <<FareQuery>>, <<>>, TRUE),
      StoreCall("query", <<ClassQuery>>, <<>>, TRUE),
      StoreCall("query", <<GenderQuery>>, <<>>, TRUE)>>

GetPassengerStatistics ==
    /\ pc = "idle"
    /\ \E qp \in StatsParams :
           LET total == StatisticsTotal(qp)
               survivors == Survivors(SurvivalResult)
               casualties == total - survivors
               rate == SurvivalRate(survivors, total)
               body == IF IsNone(rate) THEN None
                       ELSE Some(StatisticsResponse(
                                total, Val(rate), survivors, casualties,
                                Average(SqlAvg(WithAge, AgeOf)),
                                Average(SqlAvg(WithFare, FareOf)),
                                ClassDistribution, GenderDistribution))
           IN  /\ stats_response' = Answer("statistics", qp, body)
               /\ seen' = Remember("statistics", body)
    /\ store_log' = StatisticsCalls
    /\ pc' = "stats_done"
    /\ StatsUnchanged

-----------------------------------------------------------------------------
(* Grouped aggregates: survival by class, by gender and by age group *)


\* ROUND(CAST(SUM(survived) AS NUMERIC) / COUNT(*) * 100, 2), in hundredths.
SqlRate(ids) == RoundHalfUp(100 * 100 * SumOver(ids, SurvivedOf), Cardinality(ids))

\* The orders in which the store may return the rows of S: ascending in
\* the ORDER BY column, rows that tie on it in any order.
OrderedBy(S, column) ==
    {s \in Orderings(S) : \A i \in 1..(Len(s) - 1) : s[i][column] <= s[i + 1][column]}

\* A variant of the class grouping that follows pclass alone.
ClassGroupIdsByPclass(g) == {id \in RowIds : Row(id).pclass = g[2]}

\* The rows of the group (class, pclass).
ClassGroupIds(g) ==
    {id \in RowIds : Row(id).class = g[1] /\ Row(id).pclass = g[2]}

\* WHERE c.class IS NOT NULL GROUP BY c.class, o.pclass
ClassGroups ==
    {<<Row(id).class, Row(id).pclass>> : id \in {i \in RowIds : ~IsNone(Row(i).class)}}

SurvivalByClassRows ==
    {[class |-> g[1], pclass |-> g[2],
      total |-> Cardinality(ClassGroupIds(g)),
      survivors |-> SqlSum(ClassGroupIds(g), SurvivedOf),
      survival_rate |-> Some(SqlRate(ClassGroupIds(g)))] : g \in ClassGroups}

SexGroupIds(x) == {id \in RowIds : Row(id).sex = x}

\* GROUP BY s.sex: the rows without sex form the NULL group.
SurvivalByGenderRows ==
    {[sex |-> x,
      total |-> Cardinality(SexGroupIds(x)),
      survivors |-> SqlSum(SexGroupIds(x), SurvivedOf),
      survival_rate |-> Some(SqlRate(SexGroupIds(x)))] : x \in SexLabels}

\* int(row['survivors']) if row['survivors'] else 0
RowSurvivors(row) == IF TruthyInt(row.survivors) THEN Val(row.survivors) ELSE 0

\* float(row['survival_rate']) if row['survival_rate'] else 0.0
RowRate(row) == IF TruthyInt(row.survival_rate) THEN Val(row.survival_rate) ELSE 0

\* The loop of get_survival_by_class over the fetched rows.
ClassSurvival(results) ==
    LET kept == SelectSeq(results, LAMBDA row : TruthyStr(row.class))
    IN  [i \in 1..Len(kept) |->
            [class |-> Val(kept[i].class),
             total_passengers |-> kept[i].total,
             survivors |-> RowSurvivors(kept[i]),
             survival_rate |-> RowRate(kept[i])]]

\* The loop of get_survival_by_gender over the fetched rows.
GenderSurvival(results) ==
    LET kept == SelectSeq(results, LAMBDA row : TruthyStr(row.sex))
    IN  [i \in 1..Len(kept) |->
            [gender |-> Val(kept[i].sex),
             total_passengers |-> kept[i].total,
             survivors |-> RowSurvivors(kept[i]),
             survival_rate |-> RowRate(kept[i])]]

GetSurvivalByClass ==
    /\ pc = "idle"
    /\ \E qp \in StatsParams :
       \E results \in OrderedBy(SurvivalByClassRows, "pclass") :
           LET body == Some([survival_by_class |-> ClassSurvival(results)])
           IN  /\ stats_response' = Answer("survival-by-class", qp, body)
               /\ seen' = Remember("survival-by-class", body)
    /\ store_log' = <<StoreCall("query", <<SurvivalByClassQuery>>, <<>>, TRUE)>>
    /\ pc' = "stats_done"
    /\ StatsUnchanged

GetSurvivalByGender ==
    /\ pc = "idle"
    /\ \E qp \in StatsParams :
       \E results \in Orderings(SurvivalByGenderRows) :
           LET body == Some([survival_by_gender |-> GenderSurvival(results)])
           IN  /\ stats_response' = Answer("survival-by-gender", qp, body)
               /\ seen' = Remember("survival-by-gender", body)
    /\ store_log' = <<StoreCall("query", <<SurvivalByGenderQuery>>, <<>>, TRUE)>>
    /\ pc' = "stats_done"
    /\ StatsUnchanged

\* The labels of the CASE expression (written without umlauts).
Kinder == "Kinder (0-17)"
JungeErwachsene == "Junge Erwachsene (18-29)"
Erwachsene == "Erwachsene (30-49)"
AeltereErwachsene == "Aeltere Erwachsene (50-64)"
Senioren == "Senioren (65+)"

\* A variant of the CASE expression with <= in place of <.
AgeGroupOfInclusive(age) ==
    IF age <= 18 THEN Kinder
    ELSE IF age <= 30 THEN JungeErwachsene
    ELSE IF age <= 50 THEN Erwachsene
    ELSE IF age <= 65 THEN AeltereErwachsene
    ELSE Senioren

\* CASE WHEN age < 18 ... WHEN age < 30 ... WHEN age < 50 ... WHEN age < 65
\* ... ELSE ... END
AgeGroupOf(age) ==
    IF age < 18 THEN Kinder
    ELSE IF age < 30 THEN JungeErwachsene
    ELSE IF age < 50 THEN Erwachsene
    ELSE IF age < 65 THEN AeltereErwachsene
    ELSE Senioren

AgeGroupIds(label) == {id \in WithAge : AgeGroupOf(AgeOf[id]) = label}

MinAge(ids) == CHOOSE a \in {AgeOf[id] : id \in ids} : \A id \in ids : a <= AgeOf[id]

\* WHERE age IS NOT NULL GROUP BY CASE ... END
AgeGroupRows ==
    {[age_group |-> label,
      total |-> Cardinality(AgeGroupIds(label)),
      survivors |-> SqlSum(AgeGroupIds(label), SurvivedOf),
      survival_rate |-> Some(SqlRate(AgeGroupIds(label))),
      avg_age |-> Some(RoundHalfUp(10 * SumOver(AgeGroupIds(label), AgeOf),
                                   Cardinality(AgeGroupIds(label)))),
      min_age |-> MinAge(AgeGroupIds(label))] :
        label \in {AgeGroupOf(AgeOf[id]) : id \in WithAge}}

\* A variant of the query without its ORDER BY.
AgeGroupsResultsUnordered == Orderings(AgeGroupRows)

\* ORDER BY MIN(age)
AgeGroupsResults == OrderedBy(AgeGroupRows, "min_age")

\* The loop of get_age_groups over the fetched rows; average_age in tenths.
AgeGroups(results) ==
    [i \in 1..Len(results) |->
        [age_group |-> results[i].age_group,
         total_passengers |-> results[i].total,
         survivors |-> RowSurvivors(results[i]),
         survival_rate |-> RowRate(results[i]),
         average_age |-> IF TruthyInt(results[i].avg_age)
                         THEN Val(results[i].avg_age) ELSE 0]]

GetAgeGroups ==
    /\ pc = "idle"
    /\ \E qp \in StatsParams :
       \E results \in AgeGroupsResults :
           LET body == Some([age_groups |-> AgeGroups(results)])
           IN  /\ stats_response' = Answer("age-groups", qp, body)
               /\ seen' = Remember("age-groups", body)
    /\ store_log' = <<StoreCall("query", <<AgeGroupsQuery>>, <<>>, TRUE)>>
    /\ pc' = "stats_done"
    /\ StatsUnchanged

\* The store calls an aggregate handler makes when none of them fails.
CallsOf(endpoint) ==
    CASE endpoint = "statistics" -> StatisticsCalls
      [] endpoint = "survival-by-class" ->
             <<StoreCall("query", <<SurvivalByClassQuery>>, <<>>, TRUE)>>
      [] endpoint = "survival-by-gender" ->
             <<StoreCall("query", <<SurvivalByGenderQuery>>, <<>>, TRUE)>>
      [] endpoint = "age-groups" ->
             <<StoreCall("query", <<AgeGroupsQuery>>, <<>>, TRUE)>>

\* A variant in which the failed call is issued a second time.
FailAtRetried(calls, k) ==
    SubSeq(calls, 1, k - 1) \o <<[calls[k] EXCEPT !.ok = FALSE],
                                 [calls[k] EXCEPT !.ok = FALSE]>>

\* The calls issued when the k-th one raises: the exception leaves the try
\* block, the later calls are never made.
FailAt(calls, k) == SubSeq(calls, 1, k - 1) \o <<[calls[k] EXCEPT !.ok = FALSE]>>

\* A store call of an aggregate handler raises; its except clause answers
\* 500 with the text of the exception in the detail.
AggregateFails ==
    /\ pc = "idle"
    /\ \E endpoint \in Endpoints : \E qp \in StatsParams :
       \E k \in 1..Len(CallsOf(endpoint)) :
           /\ store_log' = FailAt(CallsOf(endpoint), k)
           /\ stats_response' =
                  [endpoint |-> endpoint, query_params |-> qp, status |-> 500,
                   body |-> ServerError(ConnectionError).detail]
    /\ pc' = "stats_done"
    /\ UNCHANGED seen
    /\ StatsUnchanged

-----------------------------------------------------------------------------
(* The aggregate endpoints next to an unfiltered listing *)

\* Tables of up to MaxRows rows drawn from all the candidate rows.
StatsDatasets ==
    UNION { { d \in [1..n -> 1..Len(Rows)] :
                \A i \in 1..n : \A j \in 1..n : i < j => d[i] <= d[j] } :
            n \in 0..MaxRows }

\* page_size of a listing request that does not send one: Query(50, ...).
DefaultPageSize == 50

\* GET /passengers without filter parameters, first page.
UnfilteredRequests ==
    {[page |-> 1, page_size |-> ps, f |-> NoFilterParams] : ps \in {1, DefaultPageSize}}

ReceiveUnfiltered ==
    /\ pc = "idle"
    /\ \E req \in UnfilteredRequests : Accept(req)
    /\ session' = <<>>

InitStats ==
    /\ dataset \in StatsDatasets
    /\ max_page_size = DefaultMaxPageSize
    /\ pc = "idle"
    /\ session = <<>>
    /\ HandlerIdle
    /\ stats_response = NoStatsResponse
    /\ seen = NothingSeen
    /\ AuthIdle
    /\ StoreIdle

NextStats ==
    \/ ReceiveUnfiltered
    \/ CountStep
    \/ CountFails
    \/ DataStep
    \/ DataFails
    \/ GetPassengerStatistics
    \/ GetSurvivalByClass
    \/ GetSurvivalByGender
    \/ GetAgeGroups
    \/ AggregateFails
    \/ Finish

SpecStats == InitStats /\ [][NextStats]_vars

-----------------------------------------------------------------------------
(* The query builders on their own: every combination of present fields *)

\* The PassengerFilter objects: every subset of the fields present, with
\* values the model accepts; and no filter object at all.
BuilderFilters ==
    {None} \cup
    {Some(PassengerFilter(f)) :
        f \in {g \in UNION {FiltersOn(S) : S \in SUBSET FilterFields} :
                 FieldErrors(g) = {}}}

LimitArgs == {None, Some(0), Some(1), Some(MaxSmallPageSize)}
OffsetArgs == {None, Some(0), Some(1)}

InitBuild ==
    /\ dataset = <<>>
    /\ max_page_size = DefaultMaxPageSize
    /\ pc = "builder"
    /\ session = <<>>
    /\ request = NoRequest
    /\ filters \in BuilderFilters
    /\ window = <<None, None>>
    /\ count_query = <<>>
    /\ count_params = <<>>
    /\ total_count = 0
    /\ offset = 0
    /\ total_pages = 0
    /\ query = <<>>
    /\ params = <<>>
    /\ store_log = <<>>
    /\ response = NoResponse
    /\ stats_response = NoStatsResponse
    /\ seen = NothingSeen
    /\ AuthIdle
    /\ StoreIdle

\* Both builders are called with the same filter.
BuildQueries ==
    /\ pc = "builder"
    /\ \E limit \in LimitArgs : \E off \in OffsetArgs :
           LET q == BuildPassengerQuery(filters, limit, off)
               cq == BuildCountQuery(filters)
           IN  /\ window' = <<limit, off>>
               /\ query' = q.text
               /\ params' = q.params
               /\ count_query' = cq.text
               /\ count_params' = cq.params
    /\ pc' = "built"
    /\ UNCHANGED <<active_sessions, http, auth_log, call, connections,
                   stats_response, seen, dataset, max_page_size, request, filters, total_count, offset,
                   total_pages, store_log, response, session>>

SpecBuild == InitBuild /\ [][BuildQueries]_vars

-----------------------------------------------------------------------------
(* Session authentication: api/middleware/auth.py, api/routes/auth.py, main.py *)

\* A path is the sequence of its pieces, so that `pattern in path` and
\* path.startswith(prefix) are computed on it.
Contains(path, pattern) ==
    \E i \in 0..(Len(path) - Len(pattern)) :
        SubSeq(path, i + 1, i + Len(pattern)) = pattern

StartsWith(path, prefix) ==
    Len(path) >= Len(prefix) /\ SubSeq(path, 1, Len(prefix)) = prefix

HealthPath == <<"/", "health">>
PassengersPath == <<"/", "api", "/", "v1", "/", "passengers">>
StatisticsPath == PassengersPath \o <<"/", "statistics">>
SurvivalByClassPath == PassengersPath \o <<"/", "survival-by-class">>
SurvivalByGenderPath == PassengersPath \o <<"/", "survival-by-gender">>
AgeGroupsPath == PassengersPath \o <<"/", "age-groups">>

\* The paths of the data endpoints: the router of passengers.py under /api/v1.
DataPaths ==
    {PassengersPath, StatisticsPath, SurvivalByClassPath, SurvivalByGenderPath,
     AgeGroupsPath}

\* Paths no route serves: one with a static pattern in it, one without.
OtherPaths ==
    {PassengersPath \o <<".js", "on">>,
     <<"/", "admin">>}

Paths == {HealthPath} \cup DataPaths \cup OtherPaths

\* A variant without /health among the public paths.
PublicPathsWithoutHealth ==
    {<<"/">>, <<"/", "auth", "/">>, <<"/", "auth", "/", "login">>,
     <<"/", "auth", "/", "logout">>, <<"/", "auth", "/", "check">>,
     <<"/", "docs">>, <<"/", "redoc">>, <<"/", "openapi", ".js", "on">>,
     <<"/", "favicon", ".ico">>}

\* PUBLIC_PATHS
PublicPaths ==
    {<<"/">>, HealthPath, <<"/", "auth", "/">>, <<"/", "auth", "/", "login">>,
     <<"/", "auth", "/", "logout">>, <<"/", "auth", "/", "check">>,
     <<"/", "docs">>, <<"/", "redoc">>, <<"/", "openapi", ".js", "on">>,
     <<"/", "favicon", ".ico">>}

\* STATIC_PATTERNS
StaticPatterns ==
    {<<"/", "static", "/">>, <<".css">>, <<".js">>, <<".png">>, <<".jpg">>,
     <<".ico">>}

ApiPrefix == <<"/", "api", "/">>

\* The session ids of the entries of active_sessions (the keys of the dict).
SessionIds(sessions) == {s.session_id : s \in sessions}

\* The cookie value "" is written 0: it is false in `if session_id and ...`.
EmptyCookie == 0

Cookies == {None} \cup {Some(i) : i \in EmptyCookie..MaxSessions}

\* Accept headers: a browser's and a JSON client's.
Accepts == {<<"text/html">>, <<"application/json">>}

\* A variant that takes any non-empty cookie for a session.
ValidSessionAnyCookie(cookie, sessions) ==
    ~IsNone(cookie) /\ Val(cookie) # EmptyCookie

\* session_id and session_id in self.active_sessions
ValidSession(cookie, sessions) ==
    /\ ~IsNone(cookie)
    /\ Val(cookie) # EmptyCookie
    /\ Val(cookie) \in SessionIds(sessions)

\* SessionAuthMiddleware.dispatch: call_next, or the status it answers itself.
Middleware(path, cookie, accept, sessions) ==
    IF path \in PublicPaths THEN "call_next"
    ELSE IF \E pattern \in StaticPatterns : Contains(path, pattern) THEN "call_next"
    ELSE IF ValidSession(cookie, sessions) THEN "call_next"
    ELSE IF StartsWith(accept, <<"application/json">>) \/ StartsWith(path, ApiPrefix)
         THEN "401"
         ELSE "302"

AuthenticationRequired == "Authentication required. Please login at /auth/"

\* The routes of the application: the handler of a path, or none (404).
Route(path) ==
    CASE path = HealthPath -> "health_check"
      [] path = PassengersPath -> "get_passengers"
      [] path = StatisticsPath -> "get_passenger_statistics"
      [] path = SurvivalByClassPath -> "get_survival_by_class"
      [] path = SurvivalByGenderPath -> "get_survival_by_gender"
      [] path = AgeGroupsPath -> "get_age_groups"
      [] OTHER -> "none"

AuthUnchanged ==
    UNCHANGED <<dataset, max_page_size, pc, request, filters, window, count_query,
                count_params, total_count, offset, total_pages, query, params,
                store_log, response, session, stats_response, seen, call,
                connections>>

\* A request enters the middleware, which passes it on or answers itself.
Dispatch ==
    /\ pc = "idle"
    /\ http.stage = "none"
    /\ \E path \in Paths : \E cookie \in Cookies : \E accept \in Accepts :
           LET out == Middleware(path, cookie, accept, active_sessions)
           IN  http' = [path |-> path, cookie |-> cookie, accept |-> accept,
                        stage |-> IF out = "call_next" THEN "admitted" ELSE "answered",
                        status |-> CASE out = "call_next" -> 0
                                     [] out = "401" -> 401
                                     [] out = "302" -> 302,
                        body |-> CASE out = "call_next" -> ""
                                   [] out = "401" -> AuthenticationRequired
                                   [] out = "302" -> "/auth/"]
    /\ UNCHANGED <<active_sessions, auth_log>>
    /\ AuthUnchanged

\* The request passed on by the middleware is routed to handler h.
Routed(h) == pc = "idle" /\ http.stage = "admitted" /\ Route(http.path) = h

\* health_check: a constant payload.
HealthCheck ==
    /\ Routed("health_check")
    /\ http' = [http EXCEPT !.stage = "answered", !.status = 200, !.body = "healthy"]
    /\ UNCHANGED <<active_sessions, auth_log>>
    /\ AuthUnchanged

\* No route matches the path.
NotFound ==
    /\ Routed("none")
    /\ http' = [http EXCEPT !.stage = "answered", !.status = 404, !.body = "Not Found"]
    /\ UNCHANGED <<active_sessions, auth_log>>
    /\ AuthUnchanged

ServeListing == Routed("get_passengers") /\ ReceiveUnfiltered

ServeStatistics == Routed("get_passenger_statistics") /\ GetPassengerStatistics

ServeSurvivalByClass == Routed("get_survival_by_class") /\ GetSurvivalByClass

ServeSurvivalByGender == Routed("get_survival_by_gender") /\ GetSurvivalByGender

ServeAgeGroups == Routed("get_age_groups") /\ GetAgeGroups

\* The answer of the middleware, of the router or of a handler has been
\* sent: the server is ready for the next request.
Respond ==
    /\ \/ pc = "idle" /\ http.stage = "answered"
       \/ pc \in {"done", "stats_done"}
    /\ pc' = "idle"
    /\ http' = NoHttp
    /\ session' = <<>>
    /\ request' = NoRequest
    /\ filters' = None
    /\ window' = <<None, None>>
    /\ count_query' = <<>>
    /\ count_params' = <<>>
    /\ total_count' = 0
    /\ offset' = 0
    /\ total_pages' = 0
    /\ query' = <<>>
    /\ params' = <<>>
    /\ store_log' = <<>>
    /\ response' = NoResponse
    /\ stats_response' = NoStatsResponse
    /\ seen' = NothingSeen
    /\ UNCHANGED <<active_sessions, auth_log, call, connections, dataset,
                   max_page_size>>

\* AUTHORIZED_USERS: the password of each user.
AuthorizedUsers ==
    [u \in {"admin", "analyst", "viewer"} |->
        CASE u = "admin" -> "secret"
          [] u = "analyst" -> "password123"
          [] u = "viewer" -> "view2024"]

\* The login forms tried: a valid one, another user's password, an unknown
\* user.
Credentials ==
    {[username |-> "admin", password |-> "secret"],
     [username |-> "admin", password |-> "password123"],
     [username |-> "guest", password |-> "secret"]}

\* verify_credentials: the user, or None.
VerifyCredentials(username, password) ==
    IF username \in DOMAIN AuthorizedUsers /\ AuthorizedUsers[username] = password
    THEN Some(username)
    ELSE None

\* str(uuid.uuid4()): an id no login has been given before.
FreshSessionId ==
    1 + Cardinality({i \in 1..Len(auth_log) :
                        auth_log[i].op = "login" /\ auth_log[i].ok})

\* POST /auth/login, served as a whole between two steps of other requests.
Login ==
    /\ pc = "idle"
    /\ Len(auth_log) < MaxAuthEvents
    /\ \E c \in Credentials :
           LET user_info == VerifyCredentials(c.username, c.password)
           IN  IF IsNone(user_info)
               THEN /\ active_sessions' = active_sessions
                    /\ auth_log' = Append(auth_log,
                           [op |-> "login", username |-> c.username, ok |-> FALSE,
                            session_id |-> EmptyCookie])
               ELSE /\ FreshSessionId <= MaxSessions
                    /\ active_sessions' = active_sessions \cup
                           {[session_id |-> FreshSessionId, username |-> Val(user_info)]}
                    /\ auth_log' = Append(auth_log,
                           [op |-> "login", username |-> c.username, ok |-> TRUE,
                            session_id |-> FreshSessionId])
    /\ UNCHANGED http
    /\ AuthUnchanged

\* A variant that ends every session of the user of the cookie.
WithoutSessionOfUser(sessions, cookie) ==
    IF ValidSession(cookie, sessions)
    THEN {s \in sessions :
             \A t \in sessions : t.session_id = Val(cookie) => s.username # t.username}
    ELSE sessions

\* if session_id and session_id in active_sessions: del active_sessions[session_id]
WithoutSession(sessions, cookie) ==
    IF ValidSession(cookie, sessions)
    THEN {s \in sessions : s.session_id # Val(cookie)}
    ELSE sessions

\* GET /auth/logout, served as a whole between two steps of other requests.
Logout ==
    /\ pc = "idle"
    /\ Len(auth_log) < MaxAuthEvents
    /\ \E cookie \in Cookies :
           /\ active_sessions' = WithoutSession(active_sessions, cookie)
           /\ auth_log' = Append(auth_log,
                  [op |-> "logout", username |-> "", ok |-> ~IsNone(cookie),
                   session_id |-> IF IsNone(cookie) THEN EmptyCookie ELSE Val(cookie)])
    /\ UNCHANGED http
    /\ AuthUnchanged

ApiDatasets == {<<1, 2, 3>>}

InitApi ==
    /\ dataset \in ApiDatasets
    /\ max_page_size = DefaultMaxPageSize
    /\ pc = "idle"
    /\ session = <<>>
    /\ HandlerIdle
    /\ stats_response = NoStatsResponse
    /\ seen = NothingSeen
    /\ AuthIdle
    /\ StoreIdle

NextApi ==
    \/ Dispatch
    \/ HealthCheck
    \/ NotFound
    \/ ServeListing
    \/ CountStep
    \/ CountFails
    \/ DataStep
    \/ DataFails
    \/ ServeStatistics
    \/ ServeSurvivalByClass
    \/ ServeSurvivalByGender
    \/ ServeAgeGroups
    \/ Respond
    \/ Login
    \/ Logout

SpecApi == InitApi /\ [][NextApi]_vars

-----------------------------------------------------------------------------
(* Connection lifecycle of a store call: api/database/connection.py *)

StoreFunctions == {"execute_query", "execute_count_query"}

\* The texts each function is called with.
TextsOf(fn) ==
    IF fn = "execute_count_query"
    THEN {CountBase, TotalQuery}
    ELSE {ListBase, SurvivalQuery, AgeQuery, FareQuery, ClassQuery, GenderQuery,
          SurvivalByClassQuery, SurvivalByGenderQuery, AgeGroupsQuery}

ConnUnchanged ==
    UNCHANGED <<dataset, max_page_size, pc, request, filters, window, count_query,
                count_params, total_count, offset, total_pages, query, params,
                store_log, response, session, stats_response, seen,
                active_sessions, http, auth_log>>

\* execute_query(query, params) or execute_count_query(query, params) is
\* called: conn = None, the try block is entered.
CallStore ==
    /\ call.at = "idle"
    /\ call.calls < MaxCalls
    /\ \E fn \in StoreFunctions : \E text \in TextsOf(fn) :
           call' = [NoCall EXCEPT !.fn = fn, !.text = text, !.at = "try",
                                  !.calls = call.calls + 1]
    /\ UNCHANGED connections
    /\ ConnUnchanged

\* psycopg2.connect gives a connection no earlier call was given.
NewConnection == call.calls

\* conn = get_db_connection(): a new connection, or the exception it raised
\* again, with conn still None.
Connect ==
    /\ call.at = "try"
    /\ \/ /\ call' = [call EXCEPT !.conn = Some(NewConnection), !.at = "connected",
                                  !.opened = call.opened + 1]
          /\ connections' = connections \cup {NewConnection}
       \/ /\ call' = [call EXCEPT !.at = "except"]
          /\ UNCHANGED connections
    /\ ConnUnchanged

\* cursor.execute and the fetch: the result is ready to be returned, or an
\* exception leaves the with block.
Execute ==
    /\ call.at = "connected"
    /\ \/ call' = [call EXCEPT !.at = "finally", !.outcome = "return"]
       \/ call' = [call EXCEPT !.at = "except"]
    /\ UNCHANGED connections
    /\ ConnUnchanged

\* except Exception: the error is logged and raised again.
Except ==
    /\ call.at = "except"
    /\ call' = [call EXCEPT !.at = "finally", !.outcome = "raise"]
    /\ UNCHANGED connections
    /\ ConnUnchanged

\* A variant that closes the connection at the end of the try block only.
ClosedOnReturn(c, conns) ==
    IF ~IsNone(c.conn) /\ c.outcome = "return" THEN conns \ {Val(c.conn)} ELSE conns

\* finally: if conn: conn.close()
Closed(c, conns) ==
    IF ~IsNone(c.conn) THEN conns \ {Val(c.conn)} ELSE conns

Finally ==
    /\ call.at = "finally"
    /\ connections' = Closed(call, connections)
    /\ call' = [call EXCEPT !.at = IF call.outcome = "return" THEN "returned"
                                                              ELSE "raised"]
    /\ ConnUnchanged

\* The caller has the result or the exception.
CallEnds ==
    /\ call.at \in {"returned", "raised"}
    /\ call' = [NoCall EXCEPT !.calls = call.calls]
    /\ UNCHANGED connections
    /\ ConnUnchanged

InitConn ==
    /\ dataset = <<>>
    /\ max_page_size = DefaultMaxPageSize
    /\ pc = "idle"
    /\ session = <<>>
    /\ HandlerIdle
    /\ stats_response = NoStatsResponse
    /\ seen = NothingSeen
    /\ AuthIdle
    /\ StoreIdle

NextConn ==
    \/ CallStore
    \/ Connect
    \/ Execute
    \/ Except
    \/ Finally
    \/ CallEnds

SpecConn == InitConn /\ [][NextConn]_vars

-----------------------------------------------------------------------------
(* Properties *)

QueriesBuilt == Len(query) > 0 /\ Len(count_query) > 0

\* The fields of the filter object that are present, in the fixed order.
PresentFields ==
    IF IsNone(filters) THEN <<>>
    ELSE SelectSeq(FieldOrder, LAMBDA x : ~IsNone(Val(filters)[x]))

Predicates(text) == SelectSeq(text, LAMBDA t : t \in PredPieces)

\* C1: for every filter, build_count_query and build_passenger_query produce
\* the same WHERE clause (the same predicates in the same order) and the same
\* filter arguments in the same order; the list query's arguments are those
\* of the count query followed only by the arguments of LIMIT and OFFSET.
C1_SameWhereClause ==
    QueriesBuilt =>
        LET n == Len(count_params)
            ph == Placeholders(query)
        IN  /\ WhereClause(count_query) = WhereClause(query)
            /\ Predicates(count_query) = Predicates(query)
            /\ Len(params) >= n
            /\ Len(ph) = Len(params)
            /\ \A i \in (n + 1)..Len(params) : ph[i] \in {LimitClause, OffsetClause}
            /\ SubSeq(params, 1, n) = count_params

C1_Witness ==
    /\ pc = "built"
    /\ Len(PresentFields) = Len(FieldOrder)
    /\ Len(count_params) = Len(FieldOrder)
    /\ Len(params) = Len(FieldOrder) + 2

\* The text has exactly one predicate per present field, in the fixed field
\* order, and the i-th placeholder is bound to that field's value.
OrderedAndBound(text, args) ==
    LET preds == Predicates(text)
        ph == Placeholders(text)
    IN  /\ Len(preds) = Len(PresentFields)
        /\ \A i \in 1..Len(preds) : preds[i] = PredOf(PresentFields[i])
        /\ Len(ph) = Len(args)
        /\ \A i \in 1..Len(preds) : ph[i] = preds[i]
        /\ \A i \in 1..Len(preds) : args[i] = Val(Val(filters)[PresentFields[i]])
        /\ \A i \in (Len(preds) + 1)..Len(ph) :
               \/ ph[i] = LimitClause /\ ~IsNone(window[1]) /\ args[i] = Val(window[1])
               \/ ph[i] = OffsetClause /\ ~IsNone(window[2]) /\ args[i] = Val(window[2])

\* C2: in the query built for any filter the predicates of the present fields
\* appear in the order survived, pclass, sex, min_age, max_age, embarked,
\* adult_male, alone, exactly one per present field and none for an absent
\* one, and the i-th placeholder of the text is bound to the i-th argument.
C2_FixedOrderBinding ==
    QueriesBuilt =>
        /\ OrderedAndBound(query, params)
        /\ OrderedAndBound(count_query, count_params)

C2_Witness ==
    /\ pc = "built"
    /\ ~IsNone(filters)
    /\ PresentFields = <<"survived", "max_age", "alone">>
    /\ Val(Val(filters).survived) = 0
    /\ params = <<0, 17, TRUE, 1, 0>>

-----------------------------------------------------------------------------
(* The listing endpoint *)

Listed == pc = "done" /\ response.status = 200

\* What a filter asks of a passenger, field by field.
Satisfies(row, f) ==
    /\ IsNone(f.survived) \/ row.survived = Val(f.survived)
    /\ IsNone(f.pclass) \/ row.pclass = Val(f.pclass)
    /\ IsNone(f.sex) \/ (~IsNone(row.sex) /\ Val(row.sex) = Val(f.sex))
    /\ IsNone(f.min_age) \/ (~IsNone(row.age) /\ Val(f.min_age) <= Val(row.age))
    /\ IsNone(f.max_age) \/ (~IsNone(row.age) /\ Val(row.age) <= Val(f.max_age))
    /\ IsNone(f.embarked) \/ (~IsNone(row.embarked) /\ Val(row.embarked) = Val(f.embarked))
    /\ IsNone(f.adult_male) \/ row.adult_male = Val(f.adult_male)
    /\ IsNone(f.alone) \/ row.alone = Val(f.alone)

SatisfyingIds == {id \in RowIds : Satisfies(Row(id), Val(filters))}

\* C3: every passenger a listing returns satisfies every present filter, and
\* total_count is the number of rows of the dataset that satisfy them all.
C3_FilteredListing ==
    Listed =>
        /\ \A i \in 1..Len(response.passengers) :
               response.passengers[i] \in SatisfyingIds
        /\ response.total_count = Cardinality(SatisfyingIds)

C3_Witness ==
    /\ Listed
    /\ Cardinality(Present(Val(filters))) = 2
    /\ Len(response.passengers) = 2
    /\ Len(dataset) = 3
    /\ response.total_count = 2

\* C4: the number of passengers returned is
\* min(page_size, max(0, total_count - offset)), offset = (page - 1) * page_size.
C4_ReturnedCount ==
    Listed =>
        Len(response.passengers) =
            Min(response.page_size,
                Max(0, response.total_count - (response.page - 1) * response.page_size))

C4_Witness ==
    /\ Listed
    /\ response.page = 2
    /\ response.page_size = 2
    /\ response.total_count = 3
    /\ Len(response.passengers) = 1

\* C5: total_pages is ceil(total_count / page_size); it is 0 exactly when
\* total_count is 0.
C5_TotalPagesCeil ==
    Listed =>
        /\ response.total_pages * response.page_size >= response.total_count
        /\ (response.total_pages - 1) * response.page_size < response.total_count
        /\ (response.total_pages = 0) <=> (response.total_count = 0)

C5_Witness ==
    /\ Listed
    /\ response.total_count = 3
    /\ response.page_size = 2
    /\ response.total_pages = 2

\* The responses of the walk so far, the current one last.
Walk == Append(session, response)

\* C6: the numbers of rows returned for pages 1..total_pages of the same
\* filter and page size sum to total_count.
C6_PagesSumToTotal ==
    (Listed /\ Len(Walk) = response.page /\ response.page = response.total_pages) =>
        SumSeq([i \in 1..Len(Walk) |-> Len(Walk[i].passengers)]) = response.total_count

C6_Witness ==
    /\ Listed
    /\ Len(Walk) = 3
    /\ response.page = 3
    /\ response.total_pages = 3
    /\ response.total_count = 3

RowsOf(resp) == {resp.passengers[i] : i \in 1..Len(resp.passengers)}

\* C7: walking pages 1..total_pages returns every matching row exactly once:
\* two different pages never hold the same row, whatever order the store
\* gives to rows that tie on (pclass, sex, age).
C7_PagesDisjoint ==
    (Listed /\ Len(Walk) = response.page) =>
        /\ \A i \in 1..Len(Walk) : \A j \in 1..Len(Walk) :
               i # j => RowsOf(Walk[i]) \cap RowsOf(Walk[j]) = {}
        /\ response.page = response.total_pages =>
               UNION {RowsOf(Walk[i]) : i \in 1..Len(Walk)} = SatisfyingIds

AllCallsSucceeded == \A i \in 1..Len(store_log) : store_log[i].ok

\* C8: a listing request with page > total_pages is not an error: it returns
\* an empty list, the total_count and total_pages every earlier page of the
\* same filter and page size reported, and the page it was asked for.
C8_PastLastPage ==
    (pc = "done" /\ request # NoRequest /\ AllCallsSucceeded
        /\ request.page > total_pages) =>
        /\ response.status = 200
        /\ response.passengers = <<>>
        /\ response.page = request.page
        /\ response.total_pages = total_pages
        /\ \A i \in 1..Len(session) :
               /\ session[i].total_count = response.total_count
               /\ session[i].total_pages = response.total_pages

C8_Witness ==
    /\ Listed
    /\ response.page = 3
    /\ response.total_pages = 2
    /\ response.total_count = 2
    /\ Len(session) = 2
    /\ Len(session[1].passengers) = 1

\* The ranges and enums of the Filter Model.
FilterModelValid(f) ==
    /\ FieldErrors(f) = {}
    /\ IsNone(f.sex) \/ Val(f.sex) \in {"male", "female"}
    /\ IsNone(f.embarked) \/ Val(f.embarked) \in {"C", "Q", "S"}

\* C9: constructing the Filter Model fails whenever a present field violates
\* its range or enum (survived, pclass, sex, min_age, max_age, embarked), so
\* a filter object that was constructed violates none.
C9_FilterValidated ==
    ~IsNone(filters) => FilterModelValid(Val(filters))

\* C10: a request whose page is below 1 or whose page_size is outside
\* [1, settings.max_page_size] is rejected with 422 and reaches neither the
\* handler nor the store.
C10_PageWindowValidated ==
    (store_log # <<>> \/ (pc = "done" /\ response.status # 422)) =>
        /\ request.page >= 1
        /\ request.page_size >= 1
        /\ request.page_size <= max_page_size

\* Rejected requests never reach the store; accepted ones are within the
\* ceiling written in the route.
RouteCeilingEnforced ==
    /\ response.status = 422 => store_log = <<>> /\ request = NoRequest
    /\ request # NoRequest =>
           /\ request.page >= 1
           /\ request.page_size \in 1..RoutePageSizeCeiling
           /\ FieldErrors(request.f) = {}

-----------------------------------------------------------------------------
(* Inverted age range *)

InvertedAges(f) ==
    /\ ~IsNone(f.min_age)
    /\ ~IsNone(f.max_age)
    /\ Val(f.min_age) > Val(f.max_age)

\* A validation error names a parameter whose value is outside the range
\* declared for that parameter alone.
OutOfRange(err) ==
    CASE err.loc = "page" -> err.input < 1
      [] err.loc = "page_size" -> err.input < 1 \/ err.input > RoutePageSizeCeiling
      [] err.loc = "survived" -> err.input < 0 \/ err.input > 1
      [] err.loc = "pclass" -> err.input < 1 \/ err.input > 3
      [] err.loc = "min_age" -> err.input < 0
      [] err.loc = "max_age" -> err.input > 120
      [] OTHER -> FALSE

\* C11: a listing request whose filter has min_age > max_age, both in range,
\* is accepted (a 422 is only ever about a parameter outside its own range)
\* and is answered 200 with no passengers, total_count = 0 and
\* total_pages = 0.
C11_InvertedAgeRange ==
    /\ (pc = "done" /\ response.status = 422) =>
           /\ response.detail # <<>>
           /\ \A i \in 1..Len(response.detail) : OutOfRange(response.detail[i])
    /\ (pc = "done" /\ request # NoRequest /\ InvertedAges(request.f)
            /\ AllCallsSucceeded) =>
           /\ response.status = 200
           /\ response.passengers = <<>>
           /\ response.total_count = 0
           /\ response.total_pages = 0

C11_Witness ==
    /\ Listed
    /\ InvertedAges(Val(filters))
    /\ Val(Val(filters).min_age) = 18
    /\ Val(Val(filters).max_age) = 17
    /\ dataset = <<1, 2, 4>>
    /\ Len(store_log) = 2
    /\ response.total_count = 0
    /\ response.total_pages = 0

-----------------------------------------------------------------------------
(* LIMIT and OFFSET of the list query *)

\* C12: build_passenger_query appends LIMIT and its argument exactly when a
\* limit is given (0 included), and OFFSET and its argument exactly when an
\* offset is given and LIMIT was appended; with an offset and no limit the
\* text and the arguments are those of the call with neither.
C12_LimitOffsetAppended ==
    (pc = "built") =>
        LET limit == window[1]
            off == window[2]
            neither == BuildPassengerQuery(filters, None, None)
            extra == (IF IsNone(limit) THEN <<>> ELSE limit)
                     \o (IF IsNone(limit) \/ IsNone(off) THEN <<>> ELSE off)
        IN  /\ HasPiece(query, LimitClause) <=> ~IsNone(limit)
            /\ HasPiece(query, OffsetClause) <=> (~IsNone(limit) /\ ~IsNone(off))
            /\ BoundArg(query, params, LimitClause) = limit
            /\ BoundArg(query, params, OffsetClause) =
                   (IF IsNone(limit) THEN None ELSE off)
            /\ query = neither.text
                       \o (IF IsNone(limit) THEN <<>> ELSE <<LimitClause>>)
                       \o (IF IsNone(limit) \/ IsNone(off) THEN <<>> ELSE <<OffsetClause>>)
            /\ params = neither.params \o extra
            /\ IsNone(limit) => query = neither.text /\ params = neither.params

C12_Witness ==
    /\ pc = "built"
    /\ window = <<None, Some(1)>>
    /\ PresentFields = <<"pclass", "sex">>
    /\ query = <<ListBase, Where, PredPclass, And, PredSex, OrderBy>>
    /\ params = <<3, "male">>

-----------------------------------------------------------------------------
(* The empty filter *)

EmptyFilter == IsNone(filters) \/ Present(Val(filters)) = {}

NotWindowPiece(piece) == piece \notin {LimitClause, OffsetClause}

\* C13: for a filter with every field absent, and for no filter object, both
\* builders give a text without WHERE and no filter argument: the count
\* query is its fixed join alone, the list query its fixed join followed by
\* ORDER BY (and by LIMIT/OFFSET when asked for), and the only arguments are
\* those of LIMIT and OFFSET.
C13_EmptyFilterUnconditioned ==
    (pc = "built" /\ EmptyFilter) =>
        /\ ~HasPiece(query, Where)
        /\ ~HasPiece(count_query, Where)
        /\ Predicates(query) = <<>>
        /\ Predicates(count_query) = <<>>
        /\ count_query = <<CountBase>>
        /\ count_params = <<>>
        /\ SelectSeq(query, NotWindowPiece) = <<ListBase, OrderBy>>
        /\ Len(params) = Len(query) - 2
        /\ IsNone(window[1]) => query = <<ListBase, OrderBy>> /\ params = <<>>

C13_Witness ==
    /\ pc = "built"
    /\ ~IsNone(filters)
    /\ Present(Val(filters)) = {}
    /\ window = <<Some(1), Some(0)>>
    /\ query = <<ListBase, OrderBy, LimitClause, OffsetClause>>
    /\ params = <<1, 0>>
    /\ count_query = <<CountBase>>

-----------------------------------------------------------------------------
(* The statistics payload *)

Answered(endpoint) == pc = "stats_done" /\ stats_response.endpoint = endpoint

StatsDone(endpoint) == Answered(endpoint) /\ stats_response.status = 200

SurvivorIds == {id \in RowIds : Row(id).survived = 1}

\* C14: in the statistics payload survivors + casualties = total_passengers,
\* survivors is the number of rows with survived = 1, and
\* 0 <= survivors <= total_passengers.
C14_SurvivorsAndCasualties ==
    StatsDone("statistics") =>
        LET b == stats_response.body
        IN  /\ b.survivors + b.casualties = b.total_passengers
            /\ b.survivors = Cardinality(SurvivorIds)
            /\ 0 <= b.survivors
            /\ b.survivors <= b.total_passengers

C14_Witness ==
    /\ StatsDone("statistics")
    /\ dataset = <<1, 2, 3>>
    /\ stats_response.body.total_passengers = 3
    /\ stats_response.body.survivors = 2
    /\ stats_response.body.casualties = 1

\* h hundredths is num / den rounded to two decimals: no other multiple of
\* 0.01 is nearer to the quotient.
NearestHundredth(h, num, den) ==
    /\ 2 * (h * den - 100 * num) <= den
    /\ 2 * (100 * num - h * den) <= den

\* C15: survival_rate is survivors / total_passengers * 100 rounded to two
\* decimals and lies in [0, 100]; on an empty table it is 0 and the request
\* is answered 200.
C15_SurvivalRate ==
    (Answered("statistics") /\ AllCallsSucceeded) =>
        /\ stats_response.status = 200
        /\ LET b == stats_response.body
           IN  /\ b.survival_rate >= 0
               /\ b.survival_rate <= 100 * 100
               /\ b.total_passengers = 0 => b.survival_rate = 0
               /\ b.total_passengers > 0 =>
                      NearestHundredth(b.survival_rate, 100 * b.survivors,
                                       b.total_passengers)

C15_Witness ==
    /\ StatsDone("statistics")
    /\ stats_response.body.total_passengers = 3
    /\ stats_response.body.survivors = 2
    /\ stats_response.body.survival_rate = 6667

\* C16: average_age (average_fare) is None exactly when no row has a
\* non-null age (fare); otherwise it is the mean of the non-null values.
C16_AveragesOverNonNull ==
    StatsDone("statistics") =>
        LET b == stats_response.body
        IN  /\ IsNone(b.average_age) <=> WithAge = {}
            /\ IsNone(b.average_fare) <=> WithFare = {}
            /\ ~IsNone(b.average_age) =>
                   NearestHundredth(Val(b.average_age), SumOver(WithAge, AgeOf),
                                    Cardinality(WithAge))
            /\ ~IsNone(b.average_fare) =>
                   NearestHundredth(Val(b.average_fare), SumOver(WithFare, FareOf),
                                    Cardinality(WithFare))

-----------------------------------------------------------------------------
(* The grouped aggregates *)

Labels(entries, key) == {entries[i][key] : i \in 1..Len(entries)}

\* Every label of want has exactly one entry, there is no other entry, and
\* the entry of a label counts the rows and the survivors of ids[label].
OneEntryPerLabel(entries, key, want, ids) ==
    /\ Labels(entries, key) = want
    /\ Len(entries) = Cardinality(want)
    /\ \A i \in 1..Len(entries) :
           /\ entries[i].total_passengers = Cardinality(ids[entries[i][key]])
           /\ entries[i].survivors =
                  Cardinality(ids[entries[i][key]] \cap SurvivorIds)

RowsOfClass ==
    [label \in {"First", "Second", "Third"} |->
        {id \in RowIds : Row(id).class = Some(label)}]
RowsOfSex ==
    [label \in {"female", "male"} |-> {id \in RowIds : Row(id).sex = Some(label)}]

\* C17: the by-class (by-gender) breakdown has exactly one entry per distinct
\* non-null class label (sex) of the table; its total_passengers is the
\* number of rows with that label and its survivors the number of those with
\* survived = 1; rows without a label are in no entry.
C17_OneEntryPerLabel ==
    /\ StatsDone("survival-by-class") =>
           OneEntryPerLabel(stats_response.body.survival_by_class, "class",
                            {Val(c) : c \in ClassLabels}, RowsOfClass)
    /\ StatsDone("survival-by-gender") =>
           OneEntryPerLabel(stats_response.body.survival_by_gender, "gender",
                            {Val(x) : x \in SexLabels \ {None}}, RowsOfSex)

\* Rows 2, 3 and 4: two of class Third, one survivor, and one without class.
C17_Witness ==
    /\ StatsDone("survival-by-class")
    /\ dataset = <<2, 3, 4>>
    /\ Len(stats_response.body.survival_by_class) = 1
    /\ stats_response.body.survival_by_class[1].class = "Third"
    /\ stats_response.body.survival_by_class[1].total_passengers = 2
    /\ stats_response.body.survival_by_class[1].survivors = 1
    /\ stats_response.body.survival_by_class[1].survival_rate = 5000

\* The five buckets: label, lower bound, upper bound (exclusive; 0 for none).
Buckets ==
    <<[label |-> Kinder, lo |-> 0, hi |-> 18],
      [label |-> JungeErwachsene, lo |-> 18, hi |-> 30],
      [label |-> Erwachsene, lo |-> 30, hi |-> 50],
      [label |-> AeltereErwachsene, lo |-> 50, hi |-> 65],
      [label |-> Senioren, lo |-> 65, hi |-> 0]>>

BucketOf(label) == CHOOSE k \in 1..Len(Buckets) : Buckets[k].label = label

InBucket(k) ==
    {id \in WithAge : /\ Buckets[k].lo <= AgeOf[id]
                      /\ Buckets[k].hi = 0 \/ AgeOf[id] < Buckets[k].hi}

\* C18: every row with a non-null age is counted in exactly one bucket, the
\* one of [0,18), [18,30), [30,50), [50,65), [65,inf) that holds its age;
\* rows without age are counted in none; the bucket totals sum to the number
\* of rows with a non-null age.
C18_AgeBuckets ==
    StatsDone("age-groups") =>
        LET groups == stats_response.body.age_groups
        IN  /\ \A i \in 1..Len(groups) :
                   /\ \E k \in 1..Len(Buckets) : Buckets[k].label = groups[i].age_group
                   /\ \A j \in 1..Len(groups) :
                          groups[i].age_group = groups[j].age_group => i = j
                   /\ groups[i].total_passengers =
                          Cardinality(InBucket(BucketOf(groups[i].age_group)))
            /\ \A k \in 1..Len(Buckets) :
                   InBucket(k) # {} =>
                       \E i \in 1..Len(groups) : groups[i].age_group = Buckets[k].label
            /\ SumSeq([i \in 1..Len(groups) |-> groups[i].total_passengers]) =
                   Cardinality(WithAge)

\* Ages 18 and 30 on the bucket boundaries, and one row without age.
C18_Witness ==
    /\ StatsDone("age-groups")
    /\ dataset = <<3, 5, 6>>
    /\ Len(stats_response.body.age_groups) = 2
    /\ stats_response.body.age_groups[1].age_group = JungeErwachsene
    /\ stats_response.body.age_groups[1].total_passengers = 1
    /\ stats_response.body.age_groups[2].age_group = Erwachsene
    /\ stats_response.body.age_groups[2].total_passengers = 1

\* C19: the age-groups output has no bucket with zero members and lists the
\* buckets in ascending order of their lower age bound.
C19_AgeGroupsOrdered ==
    StatsDone("age-groups") =>
        LET groups == stats_response.body.age_groups
        IN  /\ \A i \in 1..Len(groups) : groups[i].total_passengers > 0
            /\ \A i \in 1..(Len(groups) - 1) :
                   Buckets[BucketOf(groups[i].age_group)].lo <
                       Buckets[BucketOf(groups[i + 1].age_group)].lo

C19_Witness ==
    /\ StatsDone("age-groups")
    /\ dataset = <<7, 8, 9>>
    /\ Len(stats_response.body.age_groups) = 3
    /\ stats_response.body.age_groups[1].age_group = Kinder
    /\ stats_response.body.age_groups[2].age_group = AeltereErwachsene
    /\ stats_response.body.age_groups[3].age_group = Senioren

-----------------------------------------------------------------------------
(* Statistics and the listing *)

Entries(endpoint, body) ==
    CASE endpoint = "survival-by-class" -> body.survival_by_class
      [] endpoint = "survival-by-gender" -> body.survival_by_gender
      [] endpoint = "age-groups" -> body.age_groups

\* Two answers of an endpoint carry the same result: the same payload, or
\* the same entries.
SameResult(endpoint, a, b) ==
    IF endpoint = "statistics" THEN a = b
    ELSE /\ Len(Entries(endpoint, a)) = Len(Entries(endpoint, b))
         /\ \A i \in 1..Len(Entries(endpoint, a)) :
                \E j \in 1..Len(Entries(endpoint, b)) :
                    Entries(endpoint, a)[i] = Entries(endpoint, b)[j]

\* An unfiltered listing reports the total_passengers the statistics
\* endpoint last reported, and both are the number of rows of the table.
ListingAgrees ==
    /\ StatsDone("statistics") =>
           stats_response.body.total_passengers = Len(dataset)
    /\ (Listed /\ Present(request.f) = {} /\ ~IsNone(seen["statistics"])) =>
           response.total_count = Val(seen["statistics"]).total_passengers

\* An aggregate request, whatever query parameters it carries, is answered
\* with the result the endpoint gave before.
ParamsIgnored ==
    \A e \in Endpoints :
        (pc' = "stats_done" /\ stats_response'.endpoint = e /\ ~IsNone(seen[e])
            /\ AllCallsSucceeded') =>
            /\ stats_response'.status = 200
            /\ SameResult(e, Val(seen[e]), stats_response'.body)

\* C20: statistics reflect the whole table: total_passengers equals the
\* total_count of an unfiltered listing of the same table, and no request
\* parameter changes the result of a statistics endpoint.
C20_StatisticsUnfiltered == [][ListingAgrees' /\ ParamsIgnored]_vars

C20_Witness ==
    /\ Listed
    /\ Present(request.f) = {}
    /\ request.page_size = DefaultPageSize
    /\ dataset = <<1, 2, 3>>
    /\ ~IsNone(seen["statistics"])
    /\ ~IsNone(seen["age-groups"])
    /\ Val(seen["statistics"]).total_passengers = 3
    /\ response.total_count = 3

-----------------------------------------------------------------------------
(* Age bounds and rows without age *)

AgeBounded(f) == ~IsNone(f.min_age) \/ ~IsNone(f.max_age)

NullAgeIds == {id \in RowIds : IsNone(Row(id).age)}

\* The rows that satisfy every present field of the filter other than the
\* two age bounds.
OtherFieldsIds ==
    {id \in RowIds :
        Satisfies(Row(id), [Val(filters) EXCEPT !.min_age = None, !.max_age = None])}

\* C30: when min_age or max_age is present, no passenger with a null age is
\* returned or counted in total_count, also for min_age = 0 and
\* max_age = 120; passengers with a null age are returned only when both
\* bounds are absent.
C30_NullAgeExcluded ==
    Listed =>
        /\ AgeBounded(Val(filters)) =>
               /\ RowsOf(response) \cap NullAgeIds = {}
               /\ response.total_count <= Cardinality(OtherFieldsIds \ NullAgeIds)
        /\ RowsOf(response) \cap NullAgeIds # {} => ~AgeBounded(Val(filters))

\* min_age = 0 and max_age = 120 on a table of three rows, one without age.
C30_Witness ==
    /\ Listed
    /\ Val(filters).min_age = Some(0)
    /\ Val(filters).max_age = Some(120)
    /\ dataset = <<1, 2, 3>>
    /\ response.total_count = 2
    /\ Len(response.passengers) = 2

-----------------------------------------------------------------------------
(* Store failures *)

Failed == \E i \in 1..Len(store_log) : ~store_log[i].ok

RequestOver == pc \in {"done", "stats_done"}

\* C21: a store call that fails is the last store call of its request: it is
\* not issued again and no other query follows it; the request ends with a
\* server error and carries no part of a result.
C21_FailureSurfacedOnce ==
    /\ \A i \in 1..Len(store_log) :
           ~store_log[i].ok =>
               /\ i = Len(store_log)
               /\ \A j \in 1..(i - 1) : store_log[j].text # store_log[i].text
    /\ Failed => RequestOver
    /\ (Failed /\ pc = "done") =>
           /\ response.status = 500
           /\ response.passengers = <<>>
           /\ response.total_count = 0
    /\ (Failed /\ pc = "stats_done") =>
           /\ stats_response.status = 500
           /\ stats_response.body = ServerError(ConnectionError).detail

\* The fourth query of the statistics handler fails after three succeeded.
C21_Witness ==
    /\ Answered("statistics")
    /\ stats_response.status = 500
    /\ Len(store_log) = 4
    /\ store_log[3].ok
    /\ ~store_log[4].ok
    /\ store_log[4].text = <<FareQuery>>

\* C22: the body of the error response of a failed store call carries a
\* generic message only: the text of the exception is not in it.
C22_GenericErrorBody ==
    /\ (Failed /\ pc = "done") =>
           \A i \in 1..Len(response.detail) : response.detail[i] # ConnectionError
    /\ (Failed /\ pc = "stats_done") =>
           \A i \in 1..Len(stats_response.body) :
               stats_response.body[i] # ConnectionError

\* C24: a statistics request issues at most four store queries.
C24_AtMostFourQueries ==
    Answered("statistics") => Len(store_log) <= 4

-----------------------------------------------------------------------------
(* The store calls of a listing *)

\* The values of the present fields of the filter, in the fixed order.
FilterArgs == [i \in 1..Len(PresentFields) |-> Val(Val(filters)[PresentFields[i]])]

FilterPredicates == [i \in 1..Len(PresentFields) |-> PredOf(PresentFields[i])]

\* C25: a successful listing issues exactly two store calls: first the count
\* query of the filter, then the list query of the same filter with
\* limit = page_size and offset = (page - 1) * page_size; a list query is in
\* the log only behind a count query that has returned.
C25_CountThenData ==
    /\ Listed =>
           /\ Len(store_log) = 2
           /\ store_log[1].kind = "count"
           /\ store_log[1].ok
           /\ Predicates(store_log[1].text) = FilterPredicates
           /\ store_log[1].params = FilterArgs
           /\ store_log[2].kind = "query"
           /\ store_log[2].ok
           /\ Predicates(store_log[2].text) = FilterPredicates
           /\ WhereClause(store_log[2].text) = WhereClause(store_log[1].text)
           /\ SubSeq(store_log[2].text, Len(store_log[2].text) - 1, Len(store_log[2].text))
                  = <<LimitClause, OffsetClause>>
           /\ store_log[2].params
                  = FilterArgs \o <<request.page_size,
                                    (request.page - 1) * request.page_size>>
    /\ \A i \in 1..Len(store_log) :
           store_log[i].kind = "query" =>
               /\ i = 2
               /\ store_log[1].kind = "count"
               /\ store_log[1].ok

\* The second page of a filtered listing.
C25_Witness ==
    /\ Listed
    /\ request.page = 2
    /\ request.page_size = 1
    /\ Len(PresentFields) = 1
    /\ store_log[2].params = FilterArgs \o <<1, 1>>

-----------------------------------------------------------------------------
(* The session gate, /health, the table and the sessions *)

\* The cookie of the request names an entry of active_sessions.
CookieInSessions ==
    /\ ~IsNone(http.cookie)
    /\ \E s \in active_sessions : s.session_id = Val(http.cookie)

\* A handler of the router is running or has run for the request in hand.
HandlerEntered == pc # "idle" \/ store_log # <<>>

\* The middleware passes the request on, or answers it itself.
PassedOn == http.stage = "none" /\ http'.stage = "admitted"
Refused == http.stage = "none" /\ http'.stage = "answered"

C26_HealthIsPublic ==
    (http.path = HealthPath /\ http.stage # "none") =>
        /\ ~HandlerEntered
        /\ http.stage = "answered" => (http.status = 200 /\ http.body = "healthy")

\* /health answered for a request without cookie while nobody is logged in.
C26_Witness ==
    /\ http.path = HealthPath
    /\ http.stage = "answered"
    /\ http.status = 200
    /\ IsNone(http.cookie)
    /\ active_sessions = {}
    /\ store_log = <<>>

\* C27: no step of the API (listing, statistics, grouped aggregates, health,
\* login, logout, in any interleaving) changes the passenger table.
C27_DatasetUnchanged == [][dataset' = dataset]_vars

\* A listing has been answered after a login: count and list query have run.
C27_Witness ==
    /\ pc = "done"
    /\ response.status = 200
    /\ Len(store_log) = 2
    /\ auth_log # <<>>
    /\ dataset = <<1, 2, 3>>

\* The entry of the login at position i of the history, while no later
\* logout carries its session id.
Live(i) ==
    /\ auth_log[i].op = "login"
    /\ auth_log[i].ok
    /\ \A j \in (i + 1)..Len(auth_log) :
           ~(auth_log[j].op = "logout" /\ auth_log[j].ok
               /\ auth_log[j].session_id = auth_log[i].session_id)

LiveSessions ==
    {[session_id |-> auth_log[i].session_id, username |-> auth_log[i].username] :
        i \in {k \in 1..Len(auth_log) : Live(k)}}

\* C29: after any sequence of logins and logouts active_sessions holds
\* exactly the sessions created by a login with valid credentials that no
\* later logout carrying their id has ended; a failed login and a logout
\* with another cookie change nothing, each session id is there once.
C29_SessionsAreLiveLogins ==
    /\ active_sessions = LiveSessions
    /\ Cardinality(SessionIds(active_sessions)) = Cardinality(active_sessions)

\* Two sessions of the same user, the first one logged out.
C29_Witness ==
    /\ Len(auth_log) = 3
    /\ auth_log[3].op = "logout"
    /\ auth_log[3].session_id = 1
    /\ active_sessions = {[session_id |-> 2, username |-> "admin"]}

-----------------------------------------------------------------------------
(* Connections *)

CallOver == call.at \in {"returned", "raised", "idle"}

\* C28: every call of execute_query or execute_count_query opens at most one
\* connection, and that connection is closed when the call ends, whether it
\* returns or raises; after any sequence of calls none of their connections
\* is open.
C28_ConnectionClosed ==
    /\ call.opened <= 1
    /\ Cardinality(connections) <= 1
    /\ CallOver => connections = {}
    /\ ~IsNone(call.conn) => call.opened = 1

\* The second call has raised after its connection was opened.
C28_Witness ==
    /\ call.calls = 2
    /\ call.at = "raised"
    /\ call.conn = Some(2)
    /\ connections = {}

====
